---------------------------- MODULE Spec2Model ----------------------------
(***************************************************************************)
(* A model of parts of the host:                                           *)
(*   - the cluster write path (host/src/route/cluster.rs):                 *)
(*     ReplicateHandler::put / delete and replicate_write;                 *)
(*   - the table index set (src/collection/table/index.rs):                *)
(*     TableIndex::insert / upsert / delete_row over a primary and an      *)
(*     auxiliary index;                                                    *)
(*   - the block chain (host/src/chain/blockchain.rs):                     *)
(*     BlockChain::append / commit over a transactional block file,        *)
(*     BlockChain::finalize / load with a host that can go down, and       *)
(*     BlockChain::into_view;                                              *)
(*   - the query planner of the table index set:                           *)
(*     TableIndex::slice / validate_bounds / supporting_index / order_by / *)
(*     validate_order / key / values;                                      *)
(*   - the sparse tensor (host/tensor/src/sparse/mod.rs):                  *)
(*     write_value_at / write_value / mask / read_value;                   *)
(*   - errors and their HTTP responses (error/src/lib.rs,                  *)
(*     host/src/http/server.rs): the constructors of TCError and           *)
(*     transform_error;                                                    *)
(*   - the cluster read path (host/src/route/cluster.rs):                  *)
(*     ReplicateHandler::get;                                              *)
(*   - directories (src/internal/dir.rs):                                  *)
(*     Dir::create_dir / get_or_create_dir / get_dir;                      *)
(*   - tensor reductions (src/state/tensor/mod.rs):                        *)
(*     Tensor::sum / sum_all / product / product_all;                      *)
(*   - the planning loops of the table index set, one outer iteration at   *)
(*     a time: TableIndex::slice / order_by / validate_bounds /            *)
(*     validate_order;                                                     *)
(*   - table transactions (src/collection/table/index.rs):                 *)
(*     TableIndex::update / commit / rollback;                             *)
(*   - loading a chain (host/src/chain/blockchain.rs):                     *)
(*     BlockChain::load on a directory, then the first append;             *)
(*   - all and the comparisons of the sparse tensor                        *)
(*     (host/tensor/src/sparse/mod.rs): SparseTensor::all / gt / lt;       *)
(*   - the FileCopier (src/internal/archive.rs):                           *)
(*     write_file / close / poll_next;                                     *)
(*   - the file-backed chain (src/internal/chain.rs):                      *)
(*     Chain::new / from / put / until / into_stream.                      *)
(* Each part has its own specification (SpecCluster, SpecTable, SpecChain, *)
(* SpecChainHost, SpecChainView, SpecPlanner, SpecSparse, SpecError,       *)
(* SpecGet, SpecDir, SpecReduce, SpecLoop, SpecTransact, SpecLoad,         *)
(* SpecSparseCall, SpecCopier and SpecCopierFair, SpecFsChain) over the    *)
(* shared variable list; the variables of the other parts stay at their    *)
(* initial values.                                                         *)
(***************************************************************************)
EXTENDS Integers, Sequences, FiniteSets, TLC

VARIABLES
    \* ---- cluster write path ----
    pc,            \* position of the PUT/DELETE handler future
    method,        \* "PUT" or "DELETE" ("none" before a request is routed)
    isOwner,       \* txn.is_owner(self.cluster.path())
    localResult,   \* result of the local handler ("none" until it has run)
    replicas,      \* the set read by cluster.replicas(txn.id())
    writesSent,    \* replicas the write request was sent to
    response,      \* response[r]: the result replica r produced ("none" if not yet)
    received,      \* replicas whose result results.next() has yielded
    lastReceived,  \* the replica of the most recently yielded result (0: none)
    failed,        \* HashSet failed
    succeeded,     \* HashSet succeeded
    deletesSent,   \* replicas a DELETE <replica>/replicas was sent to
    deletePayload, \* the value carried by those DELETEs
    deleteDone,    \* replicas whose DELETE has returned Ok
    ret,           \* what the handler returned
    panicked,      \* the assert!(result.is_err()) failed
    \* ---- table index set ----
    primary,       \* rows of the primary index's B-tree, as seen by the one TxnId
    auxiliary,     \* auxiliary[name]: rows of that auxiliary index's B-tree
    tableRet,      \* the last TableIndex call: its operation, row and result
    tableOps,      \* number of TableIndex calls made
    \* ---- block chain ----
    latestLock,    \* BlockChain.latest: TxnLock<Mutable<u64>>
    fileBlocks,    \* BlockChain.file: fileBlocks[i] is block i of the chain file
    subjectDone,   \* TxnIds at which subject.commit has run
    txnState,      \* txnState[t]: "active", "joining" (inside join!), "committed",
                   \* "finalized", or "crashed" (the host went down before the
                   \* commit of t was complete)
    joinDone,      \* joinDone[t]: the commits of join! that have completed
    chainRet,      \* the last append: its TxnId, the block it wrote, its result
    appends,       \* number of append calls made
    chainPanic,    \* an expect(...) of commit failed
    down,          \* the host is down: crashed and not yet loaded again
    finalizeCalls, \* the calls BlockChain::finalize made on its resources
    \* ---- query planner ----
    plan,          \* the last planner call of a TableIndex: its operation, table,
                   \* bounds or order columns, and what it returned
    \* ---- sparse tensor ----
    sparseRows,    \* the rows (coord, value) of the tensor's table
    sparseRet,     \* the last SparseTensor call: its operation, the coordinates
                   \* it is about, its value and its result
    \* ---- errors on the HTTP transport ----
    httpError,     \* the last error a request ended with: the TCError constructor
                   \* called, the error it built and the HTTP response sent for it
    \* ---- view of the block chain ----
    chainView,     \* the last BlockChain::into_view: its TxnId, the latest it
                   \* read, the ordinals it streams and the blocks read for them
    \* ---- cluster read path ----
    getRoute,      \* the last GET routed through a cluster: the host and cluster
                   \* it reached, the transaction's owner, the path below the
                   \* cluster, the key, and where the request was served
    \* ---- directories ----
    dirNodes,      \* the directories below the root Dir: each with its id, the Dir
                   \* it is an entry of, its name, and the TxnId whose txn_cache
                   \* of that Dir holds it
    dirCache,      \* the pairs (Dir, TxnId) for which the Dir's txn_cache has a map
    dirRet,        \* the last call on the root Dir: its operation, TxnId, path,
                   \* result and the directory returned
    \* ---- tensor reductions ----
    reduceRet,     \* the last reduction of a Tensor: the operation, the variant of
                   \* the tensor, its elements, the axis and what was returned
    \* ---- planning loops ----
    planLoop,      \* the planning loop of a TableIndex call in progress: the call,
                   \* the bounds or columns that remain, the number of outer
                   \* iterations made, and how the loop ended
    \* ---- table transactions ----
    stores,        \* per index of the table ("primary" and every auxiliary): the
                   \* committed entries, the entries as the writing TxnId sees
                   \* them, and whether that TxnId has a pending change
    transactRet,   \* the last call on the transactional table and its result
    transactOps,   \* number of writing calls made so far
    \* ---- loading a chain ----
    chainLoad,     \* a directory, the BlockChain that BlockChain::load made of it,
                   \* and the result of the first append to that chain
    \* ---- sparse tensor: all and comparisons ----
    sparseCall,    \* the last call of all / gt / lt on a SparseTensor: its
                   \* operands and what it returned
    \* ---- FileCopier ----
    copier,        \* a FileCopier (open, waker, contents), what its consumer is
                   \* doing, the files written and the files delivered so far
    \* ---- file-backed chain ----
    fsChain        \* a Chain over an FsDir: its blocks by ordinal, latest_block,
                   \* how it was made, what was put, and the last read of it

clusterVars == <<pc, method, isOwner, localResult, replicas, writesSent, response,
                 received, lastReceived, failed, succeeded, deletesSent,
                 deletePayload, deleteDone, ret, panicked>>

tableVars == <<primary, auxiliary, tableRet, tableOps>>

chainVars == <<latestLock, fileBlocks, subjectDone, txnState, joinDone, chainRet,
               appends, chainPanic, down, finalizeCalls>>

plannerVars == <<plan>>

sparseVars == <<sparseRows, sparseRet>>

errorVars == <<httpError>>

viewVars == <<chainView>>

getVars == <<getRoute>>

dirVars == <<dirNodes, dirCache, dirRet>>

reduceVars == <<reduceRet>>

loopVars == <<planLoop>>

transactVars == <<stores, transactRet, transactOps>>

loadVars == <<chainLoad>>

sparseCallVars == <<sparseCall>>

copierVars == <<copier>>

fsChainVars == <<fsChain>>

vars == <<clusterVars, tableVars, chainVars, plannerVars, sparseVars,
          errorVars, viewVars, getVars, dirVars, reduceVars, loopVars,
          transactVars, loadVars, sparseCallVars, copierVars, fsChainVars>>

\* What the steps of one part leave alone: the variables of the other parts.
notCluster == <<tableVars, chainVars, plannerVars, sparseVars, errorVars,
                viewVars, getVars, dirVars, reduceVars, loopVars,
                transactVars, loadVars, sparseCallVars, copierVars,
                fsChainVars>>
notTable == <<clusterVars, chainVars, plannerVars, sparseVars, errorVars,
              viewVars, getVars, dirVars, reduceVars, loopVars, transactVars,
              loadVars, sparseCallVars, copierVars, fsChainVars>>
notChain == <<clusterVars, tableVars, plannerVars, sparseVars, errorVars,
              viewVars, getVars, dirVars, reduceVars, loopVars, transactVars,
              loadVars, sparseCallVars, copierVars, fsChainVars>>
notPlanner == <<clusterVars, tableVars, chainVars, sparseVars, errorVars,
                viewVars, getVars, dirVars, reduceVars, loopVars,
                transactVars, loadVars, sparseCallVars, copierVars,
                fsChainVars>>
notSparse == <<clusterVars, tableVars, chainVars, plannerVars, errorVars,
               viewVars, getVars, dirVars, reduceVars, loopVars,
               transactVars, loadVars, sparseCallVars, copierVars,
               fsChainVars>>
notError == <<clusterVars, tableVars, chainVars, plannerVars, sparseVars,
              viewVars, getVars, dirVars, reduceVars, loopVars, transactVars,
              loadVars, sparseCallVars, copierVars, fsChainVars>>
notView == <<clusterVars, tableVars, chainVars, plannerVars, sparseVars,
             errorVars, getVars, dirVars, reduceVars, loopVars, transactVars,
             loadVars, sparseCallVars, copierVars, fsChainVars>>
notGet == <<clusterVars, tableVars, chainVars, plannerVars, sparseVars,
            errorVars, viewVars, dirVars, reduceVars, loopVars, transactVars,
            loadVars, sparseCallVars, copierVars, fsChainVars>>
notDir == <<clusterVars, tableVars, chainVars, plannerVars, sparseVars,
            errorVars, viewVars, getVars, reduceVars, loopVars, transactVars,
            loadVars, sparseCallVars, copierVars, fsChainVars>>
notReduce == <<clusterVars, tableVars, chainVars, plannerVars, sparseVars,
               errorVars, viewVars, getVars, dirVars, loopVars, transactVars,
               loadVars, sparseCallVars, copierVars, fsChainVars>>
notLoop == <<clusterVars, tableVars, chainVars, plannerVars, sparseVars,
             errorVars, viewVars, getVars, dirVars, reduceVars, transactVars,
             loadVars, sparseCallVars, copierVars, fsChainVars>>
notTransact == <<clusterVars, tableVars, chainVars, plannerVars, sparseVars,
                 errorVars, viewVars, getVars, dirVars, reduceVars, loopVars,
                 loadVars, sparseCallVars, copierVars, fsChainVars>>
notLoad == <<clusterVars, tableVars, chainVars, plannerVars, sparseVars,
             errorVars, viewVars, getVars, dirVars, reduceVars, loopVars,
             transactVars, sparseCallVars, copierVars, fsChainVars>>
notSparseCall == <<clusterVars, tableVars, chainVars, plannerVars,
                   sparseVars, errorVars, viewVars, getVars, dirVars,
                   reduceVars, loopVars, transactVars, loadVars, copierVars,
                   fsChainVars>>
notCopier == <<clusterVars, tableVars, chainVars, plannerVars, sparseVars,
               errorVars, viewVars, getVars, dirVars, reduceVars, loopVars,
               transactVars, loadVars, sparseCallVars, fsChainVars>>
notFsChain == <<clusterVars, tableVars, chainVars, plannerVars, sparseVars,
                errorVars, viewVars, getVars, dirVars, reduceVars, loopVars,
                transactVars, loadVars, sparseCallVars, copierVars>>

-----------------------------------------------------------------------------
(* Bounds *)

MaxReplicas == 3
MaxValue == 2
MaxTableOps == 3
MaxTxn == 2
MaxAppends == 3

-----------------------------------------------------------------------------
(* Cluster write path: host/src/route/cluster.rs *)

Links == 1..MaxReplicas

\* ErrorType values that a replica or a handler may answer with.
Conflict == "conflict"
NonConflictErrors == {"internal", "timeout"}
WriteResults == {"ok", Conflict} \cup NonConflictErrors
LocalResults == {"ok", "bad_request"}
DeleteResults == {"ok", "internal"}
Methods == {"PUT", "DELETE"}

\* A TCResult<()> together with where it came from.
Ok == [kind |-> "ok", op |-> "none", from |-> 0]
Err(k, o, r) == [kind |-> k, op |-> o, from |-> r]
NoRet == [kind |-> "none", op |-> "none", from |-> 0]

\* let max_failures = replicas.len() / 2;
max_failures_minority(n) == (n - 1) \div 2
max_failures_less_one(n) == (n \div 2) - 1
max_failures(n) == n \div 2

\* Err(cause) if cause.code() == ErrorType::Conflict
IsConflictNever(kind) == FALSE
IsConflict(kind) == kind = Conflict

\* if !txn.is_owner(self.cluster.path()) { return Ok(()); }
ReplicatesAlways(owner) == TRUE
Replicates(owner) == owner

\* succeeded.into_iter().map(|replica| txn.delete(replica.append(REPLICAS), failed))
DeleteTargetsAll(succ, reps) == reps
DeleteTargets(succ, reps) == succ

\* if failed.len() > max_failures { assert!(result.is_err()); return result; }
QuorumResultFirst(r, f, resp) ==
    LET first == CHOOSE x \in f : \A y \in f : x <= y
    IN  Err(resp[first], "write", first)
QuorumResult(r, f, resp) == Err(resp[r], "write", r)

ClusterInit ==
    /\ pc = "idle"
    /\ method = "none"
    /\ isOwner = FALSE
    /\ localResult = "none"
    /\ replicas = {}
    /\ writesSent = {}
    /\ response = [r \in Links |-> "none"]
    /\ received = {}
    /\ lastReceived = 0
    /\ failed = {}
    /\ succeeded = {}
    /\ deletesSent = {}
    /\ deletePayload = {}
    /\ deleteDone = {}
    /\ ret = NoRet
    /\ panicked = FALSE

\* Cluster::route hands a PUT or DELETE to ReplicateHandler::put / delete; the
\* returned future starts by awaiting the local handler.
Route(m, owner) ==
    /\ pc = "idle"
    /\ pc' = "local"
    /\ method' = m
    /\ isOwner' = owner
    /\ UNCHANGED <<localResult, replicas, writesSent, response, received,
                   lastReceived, failed, succeeded, deletesSent, deletePayload,
                   deleteDone, ret, panicked>>
    /\ UNCHANGED notCluster

\* handler(txn.clone(), key.clone(), value.clone()).await?;
\* if !txn.is_owner(self.cluster.path()) { return Ok(()); }
LocalHandler(res) ==
    /\ pc = "local"
    /\ localResult' = res
    /\ IF res # "ok"
         THEN pc' = "done" /\ ret' = Err(res, "local", 0)
         ELSE IF ~Replicates(isOwner)
                THEN pc' = "done" /\ ret' = Ok
                ELSE pc' = "replicas" /\ ret' = ret
    /\ UNCHANGED <<method, isOwner, replicas, writesSent, response, received,
                   lastReceived, failed, succeeded, deletesSent, deletePayload,
                   deleteDone, panicked>>
    /\ UNCHANGED notCluster

\* let replicas = cluster.replicas(txn.id()).await?;  (the read succeeds)
\* FuturesUnordered::from_iter(replicas.into_iter().map(|link| write(txn, link)))
\* and the first results.next().await, which polls every write future.
\* With no replica the loop ends at once and try_join_all of nothing is Ok.
ReadReplicas(n) ==
    /\ pc = "replicas"
    /\ replicas' = 1..n
    /\ writesSent' = 1..n
    /\ IF n = 0
         THEN pc' = "done" /\ ret' = Ok
         ELSE pc' = "collect" /\ ret' = ret
    /\ UNCHANGED <<method, isOwner, localResult, response, received, lastReceived,
                   failed, succeeded, deletesSent, deletePayload, deleteDone,
                   panicked>>
    /\ UNCHANGED notCluster

\* let replicas = cluster.replicas(txn.id()).await?;  (the read fails)
ReadReplicasFail ==
    /\ pc = "replicas"
    /\ pc' = "done"
    /\ ret' = Err(Conflict, "read", 0)
    /\ UNCHANGED <<method, isOwner, localResult, replicas, writesSent, response,
                   received, lastReceived, failed, succeeded, deletesSent,
                   deletePayload, deleteDone, panicked>>
    /\ UNCHANGED notCluster

\* A replica answers the write request: txn.put(target, key, value) or
\* txn.delete(target, key) resolves to (replica_link, r).  The answer is in
\* flight until results.next() yields it.
ReplicaRespond(r, res) ==
    /\ pc = "collect"
    /\ r \in writesSent
    /\ response[r] = "none"
    /\ response' = [response EXCEPT ![r] = res]
    /\ UNCHANGED <<pc, method, isOwner, localResult, replicas, writesSent,
                   received, lastReceived, failed, succeeded, deletesSent,
                   deletePayload, deleteDone, ret, panicked>>
    /\ UNCHANGED notCluster

\* One iteration of  while let Some((replica, result)) = results.next().await,
\* and, when it was the last result, the fan-out of the DELETEs that follows.
ReceiveResult(r) ==
    /\ pc = "collect"
    /\ r \in replicas \ received
    /\ response[r] # "none"
    /\ received' = received \cup {r}
    /\ lastReceived' = r
    /\ LET kind == response[r]
           failed1 == IF ~IsConflict(kind) /\ kind # "ok" THEN failed \cup {r} ELSE failed
           succeeded1 == IF kind = "ok" THEN succeeded \cup {r} ELSE succeeded
       IN  IF IsConflict(kind)
             THEN /\ pc' = "done"
                  /\ ret' = Err(kind, "write", r)
                  /\ UNCHANGED <<failed, succeeded, deletesSent, deletePayload, panicked>>
             ELSE /\ failed' = failed1
                  /\ succeeded' = succeeded1
                  /\ IF Cardinality(failed1) > max_failures(Cardinality(replicas))
                       THEN IF kind = "ok"
                              THEN /\ panicked' = TRUE
                                   /\ pc' = "panic"
                                   /\ UNCHANGED <<ret, deletesSent, deletePayload>>
                              ELSE /\ pc' = "done"
                                   /\ ret' = QuorumResult(r, failed1, response)
                                   /\ UNCHANGED <<deletesSent, deletePayload, panicked>>
                       ELSE IF received' = replicas
                              THEN /\ deletePayload' = failed1
                                   /\ deletesSent' = DeleteTargets(succeeded1, replicas)
                                   /\ pc' = "deletes"
                                   /\ UNCHANGED <<ret, panicked>>
                              ELSE UNCHANGED <<pc, ret, deletesSent, deletePayload, panicked>>
    /\ UNCHANGED <<method, isOwner, localResult, replicas, writesSent, response,
                   deleteDone>>
    /\ UNCHANGED notCluster

\* try_join_all(...).await?  -- one DELETE <replica>/replicas resolves: the
\* first error ends the join with that error, the last Ok ends it with Ok.
DeleteResult(r, res) ==
    /\ pc = "deletes"
    /\ r \in deletesSent \ deleteDone
    /\ IF res # "ok"
         THEN /\ pc' = "done"
              /\ ret' = Err(res, "delete", r)
              /\ UNCHANGED deleteDone
         ELSE /\ deleteDone' = deleteDone \cup {r}
              /\ IF deleteDone' = deletesSent
                   THEN pc' = "done" /\ ret' = Ok
                   ELSE UNCHANGED <<pc, ret>>
    /\ UNCHANGED <<method, isOwner, localResult, replicas, writesSent, response,
                   received, lastReceived, failed, succeeded, deletesSent,
                   deletePayload, panicked>>
    /\ UNCHANGED notCluster

NextCluster ==
    \/ \E m \in Methods, owner \in BOOLEAN : Route(m, owner)
    \/ \E res \in LocalResults : LocalHandler(res)
    \/ \E n \in 0..MaxReplicas : ReadReplicas(n)
    \/ ReadReplicasFail
    \/ \E r \in Links, res \in WriteResults : ReplicaRespond(r, res)
    \/ \E r \in Links : ReceiveResult(r)
    \/ \E r \in Links, res \in DeleteResults : DeleteResult(r, res)

-----------------------------------------------------------------------------
(* Table index set: src/collection/table/index.rs *)

\* The table of the model: primary key (a), value columns (b, c), and one
\* auxiliary index "by_c" keyed on (c).
Values == 1..MaxValue
ColumnNames == {"a", "b", "c"}
PrimarySchema == [key |-> <<"a">>, values |-> <<"b", "c">>]
AuxiliaryKeys == [by_c |-> <<"c">>]
IndexNames == DOMAIN AuxiliaryKeys

SeqRange(s) == {s[i] : i \in 1..Len(s)}

RECURSIVE Without(_, _)
\* primary.key().iter().filter(|c| !index_key_set.contains(c.name()))
Without(s, excluded) ==
    IF s = <<>> THEN <<>>
    ELSE IF Head(s) \in excluded
           THEN Without(Tail(s), excluded)
           ELSE <<Head(s)>> \o Without(Tail(s), excluded)

\* TableIndex::create_index: the key columns of the index, then the primary
\* key columns that are not among them.
create_index(primarySchema, key) ==
    [key |-> key, values |-> Without(primarySchema.key, SeqRange(key))]

AuxiliarySchema(name) == create_index(PrimarySchema, AuxiliaryKeys[name])

\* IndexSchema::columns: the key columns followed by the value columns.
columns(schema) == schema.key \o schema.values

\* A Row maps every column name of the table to a value.
Rows == [ColumnNames -> Values]

\* IndexSchema::row_into_values(row, _): the row's value for every column of
\* the index, key columns and value columns alike, in schema order.  It is
\* what Index::insert stores as the B-tree entry.
row_into_values(schema, row) ==
    [i \in 1..Len(columns(schema)) |-> row[columns(schema)[i]]]

\* IndexSchema::values_into_row: the inverse, for the primary schema.
values_into_row(schema, values) ==
    [c \in ColumnNames |->
        values[CHOOSE i \in 1..Len(columns(schema)) : columns(schema)[i] = c]]

IsPrefix(k, e) == Len(k) <= Len(e) /\ \A i \in 1..Len(k) : e[i] = k[i]

\* BTreeFile::insert: the entry is stored; an entry equal to it is kept once.
btree_insert(tree, entry) == tree \cup {entry}

\* BTreeFile::delete(txn_id, Selector::Key(key)): every entry that starts
\* with key is deleted.
btree_delete_key(tree, key) == {e \in tree : ~IsPrefix(key, e)}

\* BTreeFile::slice(txn_id, key.into()): the entries that start with key.
btree_slice(tree, key) == {e \in tree : IsPrefix(key, e)}

\* Index::delete_row:
\*   let key = self.schema.row_into_values(row, false)?;
\*   self.btree.delete(txn_id, btree::Selector::Key(key)).await
index_delete_row(tree, schema, row) ==
    btree_delete_key(tree, row_into_values(schema, row))

\* Index::insert:
\*   let key = self.schema().row_into_values(row, reject_extra_columns)?;
\*   self.btree.insert(txn_id, key).await
index_insert(tree, schema, row) ==
    btree_insert(tree, row_into_values(schema, row))

\* Index::get / TableIndex::get: is_some() of the first row of the slice.
get_is_some_never(tree, key) == FALSE
get_is_some(tree, key) == btree_slice(tree, key) # {}

\* TableIndex::delete_row, as a function of the two stores.
delete_row_primary(p, row) == index_delete_row(p, PrimarySchema, row)
delete_row_auxiliary(aux, row) ==
    [n \in IndexNames |-> index_delete_row(aux[n], AuxiliarySchema(n), row)]

\* TableIndex::upsert: delete_row, then insert into the primary and into
\* every auxiliary index.
upsert_primary(p, row) ==
    index_insert(delete_row_primary(p, row), PrimarySchema, row)
upsert_auxiliary(aux, row) ==
    [n \in IndexNames |->
        index_insert(delete_row_auxiliary(aux, row)[n], AuxiliarySchema(n), row)]

NoTableRet == [op |-> "none", row |-> <<>>, result |-> "none"]

TableInit ==
    /\ primary = {}
    /\ auxiliary = [n \in IndexNames |-> {}]
    /\ tableRet = NoTableRet
    /\ tableOps = 0

\* TableIndex::insert(txn_id, key, value)
Insert(key, value) ==
    /\ tableOps < MaxTableOps
    /\ tableOps' = tableOps + 1
    /\ IF get_is_some(primary, key)
         THEN /\ tableRet' = [op |-> "insert", row |-> key \o value,
                              result |-> "bad_request"]
              /\ UNCHANGED <<primary, auxiliary>>
         ELSE LET row == values_into_row(PrimarySchema, key \o value)
              IN  /\ primary' = upsert_primary(primary, row)
                  /\ auxiliary' = upsert_auxiliary(auxiliary, row)
                  /\ tableRet' = [op |-> "insert", row |-> key \o value,
                                  result |-> "ok"]
    /\ UNCHANGED notTable

\* TableIndex::upsert(txn_id, row)
Upsert(row) ==
    /\ tableOps < MaxTableOps
    /\ tableOps' = tableOps + 1
    /\ primary' = upsert_primary(primary, row)
    /\ auxiliary' = upsert_auxiliary(auxiliary, row)
    /\ tableRet' = [op |-> "upsert", row |-> row_into_values(PrimarySchema, row),
                    result |-> "ok"]
    /\ UNCHANGED notTable

\* TableIndex::delete_row(txn_id, row)
DeleteRow(row) ==
    /\ tableOps < MaxTableOps
    /\ tableOps' = tableOps + 1
    /\ primary' = delete_row_primary(primary, row)
    /\ auxiliary' = delete_row_auxiliary(auxiliary, row)
    /\ tableRet' = [op |-> "delete_row", row |-> row_into_values(PrimarySchema, row),
                    result |-> "ok"]
    /\ UNCHANGED notTable

KeyTuples == [1..Len(PrimarySchema.key) -> Values]
ValueTuples == [1..Len(PrimarySchema.values) -> Values]

NextTable ==
    \/ \E key \in KeyTuples, value \in ValueTuples : Insert(key, value)
    \/ \E row \in Rows : Upsert(row)
    \/ \E row \in Rows : DeleteRow(row)

-----------------------------------------------------------------------------
(* Transactional cells (tc_transact::lock::TxnLock and the blocks of          *)
(* fs::File): a cell keeps its committed versions, each tagged with the      *)
(* TxnId that committed it, and at most one pending version, owned by the    *)
(* TxnId that holds the write lock.  TxnId 0 is the one of BlockChain::load. *)

TxnIds == 1..MaxTxn
BlockIds == 0..MaxTxn

NoValue == "none"

\* TxnLock::new(name, value)
NewLock(value) == [committed |-> {<<0, value>>}, writer |-> 0, pending |-> NoValue]
\* a block id the file does not hold
NoLock == [committed |-> {}, writer |-> 0, pending |-> NoValue]

VersionsAt(l, t) == {v \in l.committed : v[1] <= t}

\* The cell has a value for t: t's own pending version or a committed
\* version that is not newer than t.
ExistsAt(l, t) == l.writer = t \/ VersionsAt(l, t) # {}

\* A reader at t waits while an earlier (or equal) other TxnId holds the
\* write lock; commit wakes it.
Readable(l, t) == l.writer = 0 \/ l.writer = t \/ t < l.writer

\* read(txn): its own pending version, else the greatest committed version
\* that is not newer than txn.
ReadAt(l, t) ==
    IF l.writer = t THEN l.pending
    ELSE (CHOOSE v \in VersionsAt(l, t) : \A w \in VersionsAt(l, t) : w[1] <= v[1])[2]

\* write(txn) succeeds only if no other TxnId holds the write lock or has
\* committed a version newer than txn; it fails with conflict otherwise.
Writable(l, t) ==
    /\ l.writer \in {0, t}
    /\ \A v \in l.committed : v[1] <= t

WriteAt(l, t, value) == [l EXCEPT !.writer = t, !.pending = value]

\* commit(txn): the pending version of txn, if any, becomes the committed
\* version tagged txn.
CommitAt(l, t) ==
    IF l.writer = t
      THEN [committed |-> {v \in l.committed : v[1] # t} \cup {<<t, l.pending>>},
            writer |-> 0, pending |-> NoValue]
      ELSE l

-----------------------------------------------------------------------------
(* Block chain: host/src/chain/blockchain.rs *)

BLOCK_SIZE == 1000000
HashLen == 32
\* A hash is modelled by what it is a digest of: the mutations of the blocks
\* before it, block by block.  NULL_HASH is the digest of nothing.
NULL_HASH == <<>>

\* Serialized sizes of the mutations the model appends: a block with one
\* large mutation is 995,000 bytes, and 5,000 bytes more make it exactly
\* BLOCK_SIZE.
MutationSizes == {5000, 994968}

\* ChainBlock::new(hash)
NewChainBlock(h) == [hash |-> h, mutations |-> <<>>]

\* ChainBlock::append(txn_id, path, key, value)
BlockAppend(block, t, sz) ==
    [block EXCEPT !.mutations = Append(@, [txn |-> t, size |-> sz])]

RECURSIVE SumSizes(_)
SumSizes(ms) == IF ms = <<>> THEN 0 ELSE Head(ms).size + SumSizes(Tail(ms))

\* ChainBlock::size: the serialized byte count, the predecessor hash included.
BlockSizeOf(block) == HashLen + SumSizes(block.mutations)

\* ChainBlock::hash: a digest of the serialized block, that is of its
\* predecessor hash and its mutations; distinct contents have distinct digests.
BlockHash(block) == Append(block.hash, block.mutations)

\* self.file.write_block(txn_id, (*latest).into())
append_block_first(latest) == 0
append_block(latest) == latest

\* let hash = block.hash().await; ... ChainBlock::new(hash)
seal_hash_null(block) == NULL_HASH
seal_hash(block) == BlockHash(block)

\* if block.size().await.expect("block size") >= BLOCK_SIZE
is_full_strict(block) == BlockSizeOf(block) > BLOCK_SIZE
is_full(block) == BlockSizeOf(block) >= BLOCK_SIZE

JoinParts == {"latest", "subject", "file"}

NoChainRet == [txn |-> 0, block |-> 0, result |-> "none"]

\* BlockChain::load on a directory without a chain file: latest is 0 and
\* block 0 is created from NULL_HASH.
ChainInit ==
    /\ latestLock = NewLock(0)
    /\ fileBlocks = [i \in BlockIds |->
                        IF i = 0 THEN NewLock(NewChainBlock(NULL_HASH)) ELSE NoLock]
    /\ subjectDone = {}
    /\ txnState = [t \in TxnIds |-> "active"]
    /\ joinDone = [t \in TxnIds |-> {}]
    /\ chainRet = NoChainRet
    /\ appends = 0
    /\ chainPanic = FALSE
    /\ down = FALSE
    /\ finalizeCalls = {}

\* block.append(txn_id, path, key, value) on the write guard of the block
append_mutation_dropped(block, t, sz) == block
append_mutation(block, t, sz) == BlockAppend(block, t, sz)

\* BlockChain::append(txn_id, path, key, value)
ChainAppend(t, sz) ==
    /\ ~chainPanic /\ ~down
    /\ txnState[t] = "active"
    /\ appends < MaxAppends
    /\ Readable(latestLock, t)
    /\ appends' = appends + 1
    /\ IF ~ExistsAt(latestLock, t)
         THEN \* self.latest.read(&txn_id).await? : the version was reclaimed
              /\ chainRet' = [txn |-> t, block |-> 0, result |-> "conflict"]
              /\ UNCHANGED fileBlocks
         ELSE LET latest == ReadAt(latestLock, t)
                  id == append_block(latest)
                  cell == fileBlocks[id]
              IN  IF ~Writable(cell, t)
                    THEN /\ chainRet' = [txn |-> t, block |-> id, result |-> "conflict"]
                         /\ UNCHANGED fileBlocks
                    ELSE IF ~ExistsAt(cell, t)
                           THEN /\ chainRet' = [txn |-> t, block |-> id, result |-> "not_found"]
                                /\ UNCHANGED fileBlocks
                           ELSE /\ fileBlocks' =
                                     [fileBlocks EXCEPT
                                        ![id] = WriteAt(cell, t, append_mutation(ReadAt(cell, t), t, sz))]
                                /\ chainRet' = [txn |-> t, block |-> id, result |-> "ok"]
    /\ UNCHANGED <<latestLock, subjectDone, txnState, joinDone, chainPanic, down,
                   finalizeCalls>>
    /\ UNCHANGED notChain

\* BlockChain::commit(txn_id), up to the join!: read latest and its block and,
\* if the block is full, bump latest and create the next block.
CommitSeal(t) ==
    /\ ~chainPanic /\ ~down
    /\ txnState[t] = "active"
    /\ Readable(latestLock, t)
    /\ LET latest == IF ExistsAt(latestLock, t) THEN ReadAt(latestLock, t) ELSE 0
           cell == fileBlocks[latest]
       IN  /\ Readable(cell, t)
           /\ IF ~ExistsAt(latestLock, t) \/ ~ExistsAt(cell, t)
                THEN \* expect("latest block number"),
                     \* expect("read latest chain block")
                     /\ chainPanic' = TRUE
                     /\ UNCHANGED <<latestLock, fileBlocks, txnState>>
                ELSE IF ~is_full(ReadAt(cell, t))
                       THEN /\ txnState' = [txnState EXCEPT ![t] = "joining"]
                            /\ UNCHANGED <<latestLock, fileBlocks, chainPanic>>
                       ELSE IF \/ ~Writable(latestLock, t)
                               \/ latest + 1 \notin BlockIds
                               \/ ExistsAt(fileBlocks[latest + 1], t)
                               \/ ~Writable(fileBlocks[latest + 1], t)
                              THEN \* expect("latest block number"),
                                   \* expect("bump chain block number")
                                   /\ chainPanic' = TRUE
                                   /\ UNCHANGED <<latestLock, fileBlocks, txnState>>
                              ELSE /\ latestLock' = WriteAt(latestLock, t, latest + 1)
                                   /\ fileBlocks' =
                                        [fileBlocks EXCEPT
                                           ![latest + 1] =
                                              WriteAt(@, t, NewChainBlock(seal_hash(ReadAt(cell, t))))]
                                   /\ txnState' = [txnState EXCEPT ![t] = "joining"]
                                   /\ UNCHANGED chainPanic
    /\ UNCHANGED <<subjectDone, joinDone, chainRet, appends, down, finalizeCalls>>
    /\ UNCHANGED notChain

\* One of the three commits of  join!(self.latest.commit(txn_id),
\* self.subject.commit(txn_id), self.file.commit(txn_id))  completes.
JoinStep(t, part) ==
    /\ txnState[t] = "joining"
    /\ part \notin joinDone[t]
    /\ joinDone' = [joinDone EXCEPT ![t] = @ \cup {part}]
    /\ txnState' = [txnState EXCEPT
                      ![t] = IF joinDone'[t] = JoinParts THEN "committed" ELSE @]

CommitLatest(t) ==
    /\ JoinStep(t, "latest")
    /\ latestLock' = CommitAt(latestLock, t)
    /\ UNCHANGED <<fileBlocks, subjectDone, chainRet, appends, chainPanic, down,
                   finalizeCalls>>
    /\ UNCHANGED notChain

CommitSubject(t) ==
    /\ JoinStep(t, "subject")
    /\ subjectDone' = subjectDone \cup {t}
    /\ UNCHANGED <<latestLock, fileBlocks, chainRet, appends, chainPanic, down,
                   finalizeCalls>>
    /\ UNCHANGED notChain

CommitFile(t) ==
    /\ JoinStep(t, "file")
    /\ fileBlocks' = [i \in BlockIds |-> CommitAt(fileBlocks[i], t)]
    /\ UNCHANGED <<latestLock, subjectDone, chainRet, appends, chainPanic, down,
                   finalizeCalls>>
    /\ UNCHANGED notChain

\* TxnLock::finalize(txn) and File::finalize(txn), per cell: the committed
\* versions that are not newer than txn are discarded, except the most recent.
FinalizeAt(l, t) ==
    IF VersionsAt(l, t) = {}
      THEN l
      ELSE LET keep == CHOOSE v \in VersionsAt(l, t) :
                          \A w \in VersionsAt(l, t) : w[1] <= v[1]
           IN  [l EXCEPT !.committed = (@ \ VersionsAt(l, t)) \cup {keep}]

\* BlockChain::finalize(txn_id):  join!(self.latest.finalize(txn_id),
\* self.subject.commit(txn_id), self.file.finalize(txn_id))
Finalize(t) ==
    /\ ~down
    /\ txnState[t] = "committed"
    /\ txnState' = [txnState EXCEPT ![t] = "finalized"]
    /\ latestLock' = FinalizeAt(latestLock, t)
    /\ subjectDone' = subjectDone \cup {t}
    /\ fileBlocks' = [i \in BlockIds |-> FinalizeAt(fileBlocks[i], t)]
    /\ finalizeCalls' = finalizeCalls \cup
          { [txn |-> t, resource |-> "latest", method |-> "finalize"],
            [txn |-> t, resource |-> "subject", method |-> "commit"],
            [txn |-> t, resource |-> "file", method |-> "finalize"] }
    /\ UNCHANGED <<joinDone, chainRet, appends, chainPanic, down>>
    /\ UNCHANGED notChain

\* What a cell keeps when the host goes down: its committed versions.
Durable(l) == [l EXCEPT !.writer = 0, !.pending = NoValue]

\* The host goes down, at any point: the pending versions are lost, a
\* commit that was inside its join! stays where it was, and the transactions
\* that were not committed end with the host.
Crash ==
    /\ ~down
    /\ down' = TRUE
    /\ latestLock' = Durable(latestLock)
    /\ fileBlocks' = [i \in BlockIds |-> Durable(fileBlocks[i])]
    /\ txnState' = [t \in TxnIds |->
                       IF txnState[t] \in {"active", "joining"}
                         THEN "crashed" ELSE txnState[t]]
    /\ UNCHANGED <<subjectDone, joinDone, chainRet, appends, chainPanic, finalizeCalls>>
    /\ UNCHANGED notChain

\* let mut latest = 0; for block_id in file.block_ids(..) { if block_id >
\* latest { latest = block_id } }
load_latest_zero(ids) == 0
load_latest(ids) == CHOOSE m \in ids \cup {0} : \A i \in ids : i <= m

\* BlockChain::load on a directory that holds the chain file.
Load ==
    /\ down
    /\ down' = FALSE
    /\ chainPanic' = FALSE
    /\ LET block_ids == {i \in BlockIds : fileBlocks[i].committed # {}}
       IN  latestLock' = NewLock(load_latest(block_ids))
    /\ UNCHANGED <<fileBlocks, subjectDone, txnState, joinDone, chainRet, appends,
                   finalizeCalls>>
    /\ UNCHANGED notChain

NextChain ==
    \/ \E t \in TxnIds, sz \in MutationSizes : ChainAppend(t, sz)
    \/ \E t \in TxnIds : CommitSeal(t)
    \/ \E t \in TxnIds : CommitLatest(t)
    \/ \E t \in TxnIds : CommitSubject(t)
    \/ \E t \in TxnIds : CommitFile(t)

-----------------------------------------------------------------------------
(* Query planner: src/collection/table/index.rs                              *)
(*                                                                           *)
(* A Bounds is a map from column names to ColumnBounds.  The planner reads   *)
(* of it only which columns it bounds and the order in which it iterates;    *)
(* the model takes a Bounds as the sequence of its column names in iteration *)
(* order, every order being possible, and a map collected from a part of it  *)
(* iterates in the same order.  The ColumnBounds are of the columns' types.  *)

MaxBounds == 4
PlanColumns == {"a", "b", "c", "d", "e", "x"}
PRIMARY_INDEX == "primary"

\* The tables the planner is asked about: the primary schema and the
\* auxiliary indices, (name, key) in the order of their declaration.
PlanTables ==
    { [primary |-> [key |-> <<"a", "b">>, values |-> <<"c">>],
       indices |-> << [name |-> "by_c", key |-> <<"c">>] >>],
      [primary |-> [key |-> <<"a">>, values |-> <<"b", "c">>],
       indices |-> << [name |-> "c_then_b", key |-> <<"c", "b">>],
                      [name |-> "by_c", key |-> <<"c">>] >>],
      [primary |-> [key |-> <<"a">>, values |-> <<"b", "c", "d", "e">>],
       indices |-> << [name |-> "by_e", key |-> <<"e">>] >>] }

\* Ord for ValueId, on the index names of PlanTables.
NameOrder == <<"by_c", "by_e", "c_then_b">>

\* The lists of distinct column names of at most MaxBounds columns: the
\* Bounds and the order column lists the planner is called with.
ColumnLists ==
    UNION { {s \in [1..n -> PlanColumns] :
                \A i, j \in 1..n : i # j => s[i] # s[j]} : n \in 0..MaxBounds }

\* TableIndex.auxiliary, a BTreeMap<ValueId, Index>, as auxiliary.values()
\* iterates it: in the order of the index names.
auxiliary_values(table) ==
    LET declared(n) == \E k \in 1..Len(table.indices) : table.indices[k].name = n
        key_of(n) == (CHOOSE d \in SeqRange(table.indices) : d.name = n).key
        names == SelectSeq(NameOrder, declared)
    IN  [k \in 1..Len(names) |->
            [name |-> names[k], schema |-> create_index(table.primary, key_of(names[k]))]]

\* iter::once(&self.primary).chain(self.auxiliary.values())
primary_then_auxiliary(table) ==
    <<[name |-> PRIMARY_INDEX, schema |-> table.primary]>> \o auxiliary_values(table)

\* bounds::validate(bounds, columns): every bounded column is one of columns.
bounds_validate(bounds, cols) == \A k \in 1..Len(bounds) : bounds[k] \in SeqRange(cols)

\* Index::validate_bounds: the bounds, as they iterate, name the first
\* columns of the index in the order of its schema.
index_validate_bounds(schema, bounds) ==
    /\ bounds_validate(bounds, columns(schema))
    /\ \A k \in 1..Len(bounds) : columns(schema)[k] = bounds[k]

\* Index::validate_order: self.schema.starts_with(&order)
index_validate_order(schema, order) == IsPrefix(order, columns(schema))

\* let subset: Bounds = bounds[..i].iter().cloned().collect(): the map of
\* these columns, in the iteration order of the Bounds they come from.
collect(iteration, part) ==
    LET kept(n) == n \in SeqRange(part) IN SelectSeq(iteration, kept)

\* The filter_map over the primary schema's columns: the bounded columns in
\* the order of the primary schema; a column the schema does not have is
\* not looked up.
normalize(table, bounds) ==
    LET bounded(n) == n \in SeqRange(bounds) IN SelectSeq(columns(table.primary), bounded)

\* index.validate_bounds(&subset).is_ok() / index.validate_order(subset).is_ok()
accepts(mode, schema, iteration, part) ==
    IF mode = "bounds"
      THEN index_validate_bounds(schema, collect(iteration, part))
      ELSE index_validate_order(schema, part)

\* The first index, of the primary and then the auxiliary indices, that
\* accepts; "none" if none does.
first_accepting(mode, idxs, iteration, part) ==
    LET ok == {k \in 1..Len(idxs) : accepts(mode, idxs[k].schema, iteration, part)}
    IN  IF ok = {} THEN "none"
        ELSE idxs[CHOOSE k \in ok : \A j \in ok : k <= j].name

\* let index_slice = self.primary.index_slice(subset)?
sliced_index(name) == PRIMARY_INDEX

RECURSIVE plan_pass(_, _, _, _, _, _, _)
\* for i in (1..rem.len() + 1).rev() { let subset = rem[..i]; for index in
\* .. { if accepted { rem = &rem[i..]; ..; break } } }:  the range of i is
\* fixed when the loop starts, so rem[..i] can reach past the end of the
\* shortened rem, which panics.  early: the body returns as soon as rem is
\* empty (slice, order_by); otherwise the loop goes on (validate_bounds,
\* validate_order).
plan_pass(mode, early, table, iteration, rem, i, steps) ==
    IF i = 0 THEN [status |-> "continue", rem |-> rem, steps |-> steps]
    ELSE IF i > Len(rem) THEN [status |-> "panic", rem |-> rem, steps |-> steps]
    ELSE LET part == SubSeq(rem, 1, i)
             by == first_accepting(mode, primary_then_auxiliary(table), iteration, part)
             rest == SubSeq(rem, i + 1, Len(rem))
             merged == Append(steps, [accepted_by |-> by,
                                      sliced_from |-> sliced_index(by),
                                      subset |-> part])
         IN  IF by = "none"
               THEN plan_pass(mode, early, table, iteration, rem, i - 1, steps)
               ELSE IF early /\ rest = <<>>
                      THEN [status |-> "ok", rem |-> rest, steps |-> merged]
                      ELSE plan_pass(mode, early, table, iteration, rest, i - 1, merged)

RECURSIVE plan_loop(_, _, _, _, _, _)
\* loop { let initial = ..; for i ..; if rem.len() == initial { return
\* Err(bad_request) } }  and, without the early return,
\* while !rem.is_empty() { .. }; Ok(())
plan_loop(mode, early, table, iteration, rem, steps) ==
    IF ~early /\ rem = <<>>
      THEN [status |-> "ok", rem |-> rem, steps |-> steps]
      ELSE LET r == plan_pass(mode, early, table, iteration, rem, Len(rem), steps)
           IN  IF r.status # "continue" THEN r
               ELSE IF Len(r.rem) = Len(rem)
                      THEN [status |-> "bad_request", rem |-> rem, steps |-> steps]
                      ELSE plan_loop(mode, early, table, iteration, r.rem, r.steps)

\* TableIndex::validate_bounds
table_validate_bounds(table, bounds) ==
    plan_loop("bounds", FALSE, table, bounds, normalize(table, bounds), <<>>)

\* TableIndex::validate_order
table_validate_order(table, order) ==
    plan_loop("order", FALSE, table, order, order, <<>>)

\* TableIndex::slice
table_slice(table, bounds) ==
    IF index_validate_bounds(table.primary, bounds)
      THEN [status |-> "ok", view |-> "TableSlice", steps |-> <<>>]
      ELSE LET r == plan_loop("bounds", TRUE, table, bounds, normalize(table, bounds), <<>>)
           IN  [status |-> r.status, view |-> "Merged", steps |-> r.steps]

\* TableIndex::order_by
table_order_by(table, order) ==
    LET v == table_validate_order(table, order)
    IN  IF v.status # "ok"
          THEN [status |-> v.status, view |-> "none", steps |-> <<>>]
          ELSE IF index_validate_order(table.primary, order)
                 THEN [status |-> "ok", view |-> "TableSlice", steps |-> <<>>]
                 ELSE LET r == plan_loop("order", TRUE, table, order, order, <<>>)
                      IN  [status |-> r.status, view |-> "Merged", steps |-> r.steps]

\* TableIndex::supporting_index
supporting_index(table, bounds) ==
    first_accepting("bounds", primary_then_auxiliary(table), bounds, bounds)

NoPlan == [op |-> "none", table |-> <<>>, columns |-> <<>>, reverse |-> FALSE,
           result |-> "none", view |-> "none", steps |-> <<>>]

PlannerInit == plan = NoPlan

\* The calls below read the TableIndex and change nothing, so what one
\* returns does not depend on the calls before it: a behaviour makes one call.

Slice(table, bounds) ==
    /\ plan = NoPlan
    /\ LET r == table_slice(table, bounds)
       IN  plan' = [op |-> "slice", table |-> table, columns |-> bounds,
                    reverse |-> FALSE, result |-> r.status,
                    view |-> IF r.status = "ok" THEN r.view ELSE "none",
                    steps |-> IF r.status = "ok" THEN r.steps ELSE <<>>]
    /\ UNCHANGED notPlanner

ValidateBounds(table, bounds) ==
    /\ plan = NoPlan
    /\ plan' = [op |-> "validate_bounds", table |-> table, columns |-> bounds,
                reverse |-> FALSE,
                result |-> table_validate_bounds(table, bounds).status,
                view |-> "none", steps |-> <<>>]
    /\ UNCHANGED notPlanner

SupportingIndex(table, bounds) ==
    /\ plan = NoPlan
    /\ LET by == supporting_index(table, bounds)
       IN  plan' = [op |-> "supporting_index", table |-> table, columns |-> bounds,
                    reverse |-> FALSE,
                    result |-> IF by = "none" THEN "bad_request" ELSE "ok",
                    view |-> by, steps |-> <<>>]
    /\ UNCHANGED notPlanner

OrderBy(table, order, reverse) ==
    /\ plan = NoPlan
    /\ LET r == table_order_by(table, order)
       IN  plan' = [op |-> "order_by", table |-> table, columns |-> order,
                    reverse |-> reverse, result |-> r.status,
                    view |-> IF r.status = "ok" THEN r.view ELSE "none",
                    steps |-> IF r.status = "ok" THEN r.steps ELSE <<>>]
    /\ UNCHANGED notPlanner

ValidateOrder(table, order) ==
    /\ plan = NoPlan
    /\ plan' = [op |-> "validate_order", table |-> table, columns |-> order,
                reverse |-> FALSE,
                result |-> table_validate_order(table, order).status,
                view |-> "none", steps |-> <<>>]
    /\ UNCHANGED notPlanner

\* Index::key and Index::values: the key and the value columns of the schema.
index_key(schema) == schema.key
index_values(schema) == schema.values

\* TableIndex::key and TableIndex::values, as a TableInstance.
table_key(table) == index_key(table.primary)
table_values(table) == index_key(table.primary)

KeyValues(table) ==
    /\ plan = NoPlan
    /\ plan' = [op |-> "key_values", table |-> table, columns |-> <<>>,
                reverse |-> FALSE, result |-> "ok",
                view |-> [key |-> table_key(table), values |-> table_values(table)],
                steps |-> <<>>]
    /\ UNCHANGED notPlanner

NextPlanner ==
    \/ \E table \in PlanTables : KeyValues(table)
    \/ \E table \in PlanTables, bounds \in ColumnLists : Slice(table, bounds)
    \/ \E table \in PlanTables, bounds \in ColumnLists : ValidateBounds(table, bounds)
    \/ \E table \in PlanTables, bounds \in ColumnLists : SupportingIndex(table, bounds)
    \/ \E table \in PlanTables, order \in ColumnLists, reverse \in BOOLEAN :
          OrderBy(table, order, reverse)
    \/ \E table \in PlanTables, order \in ColumnLists : ValidateOrder(table, order)

-----------------------------------------------------------------------------
(* Sparse tensor: host/tensor/src/sparse/mod.rs                              *)
(*                                                                           *)
(* A SparseTensor of shape (2, 2) over its accessor, a table of rows         *)
(* (coord, value).  Every write of one call carries the same value, so the   *)
(* order in which buffer_unordered completes them does not matter.           *)

MaxNumber == 2
Numbers == 0..MaxNumber
\* self.dtype().zero()
zero == 0

TensorShape == <<2, 2>>
Coords == {<<i, j>> : i \in 0..(TensorShape[1] - 1), j \in 0..(TensorShape[2] - 1)}

\* The bounds of one axis: a range lo..hi of it; and the Bounds of the tensor.
AxisBounds(n) == {lo..hi : lo \in 0..(n - 1), hi \in 0..(n - 1)} \ {{}}
TensorBounds == AxisBounds(TensorShape[1]) \X AxisBounds(TensorShape[2])

\* bounds.affected(): the coordinates within the bounds.
affected(bounds) == {c \in Coords : c[1] \in bounds[1] /\ c[2] \in bounds[2]}

\* SparseAccess::write_value(txn_id, coord, value): the row at coord is
\* deleted if value is the dtype's zero, and else upserted.
accessor_write_value(rows, coord, value) ==
    IF value = zero
      THEN {r \in rows : r.coord # coord}
      ELSE {r \in rows : r.coord # coord} \cup {[coord |-> coord, value |-> value]}

RECURSIVE write_all(_, _, _)
\* One accessor.write_value per coordinate of a stream of coordinates.
write_all(rows, coords, value) ==
    IF coords = {} THEN rows
    ELSE LET c == CHOOSE c \in coords : TRUE
         IN  write_all(accessor_write_value(rows, c, value), coords \ {c}, value)

\* SparseAccess::read_value_at(txn, coord): the value of the row at coord,
\* the dtype's zero if there is none.
accessor_read_value_at(rows, coord) ==
    IF \E r \in rows : r.coord = coord
      THEN (CHOOSE r \in rows : r.coord = coord).value
      ELSE zero

\* other.accessor.filled(txn): the coordinates of the rows of other.
filled_coords(rows) == {r.coord : r \in rows}

\* .map_ok(|(coord, _)| self.write_value_at(txn_id, coord, zero.clone())):
\* what mask writes at the coordinate of a row of other.
mask_value_of_other(value) == value
mask_value(value) == zero

RECURSIVE mask_all(_, _)
\* One write_value_at per row of the stream other.accessor.filled(txn).
mask_all(rows, otherRows) ==
    IF otherRows = {} THEN rows
    ELSE LET r == CHOOSE r \in otherRows : TRUE
         IN  mask_all(accessor_write_value(rows, r.coord, mask_value(r.value)),
                      otherRows \ {r})

NoSparseRet == [op |-> "none", coords |-> {}, value |-> zero, result |-> "none"]

SparseInit ==
    /\ sparseRows = {}
    /\ sparseRet = NoSparseRet

\* TensorIO::write_value_at(txn_id, coord, value)
WriteValueAt(coord, value) ==
    /\ sparseRows' = accessor_write_value(sparseRows, coord, value)
    /\ sparseRet' = [op |-> "write_value_at", coords |-> {coord}, value |-> value,
                     result |-> "ok"]
    /\ UNCHANGED notSparse

\* TensorIO::write_value(txn_id, bounds, value)
WriteValue(bounds, value) ==
    /\ sparseRows' = write_all(sparseRows, affected(bounds), value)
    /\ sparseRet' = [op |-> "write_value", coords |-> affected(bounds), value |-> value,
                     result |-> "ok"]
    /\ UNCHANGED notSparse

\* TensorDualIO::mask(txn, other), other a SparseTensor with the rows
\* otherRows and of the same shape or not.
Mask(otherRows, sameShape) ==
    /\ IF ~sameShape
         THEN /\ sparseRet' = [op |-> "mask", coords |-> {}, value |-> zero,
                               result |-> "unsupported"]
              /\ UNCHANGED sparseRows
         ELSE /\ sparseRows' = mask_all(sparseRows, otherRows)
              /\ sparseRet' = [op |-> "mask", coords |-> filled_coords(otherRows),
                               value |-> zero, result |-> "ok"]
    /\ UNCHANGED notSparse

\* TensorIO::read_value(txn, coord)
ReadValue(coord) ==
    /\ sparseRet' = [op |-> "read_value", coords |-> {coord},
                     value |-> accessor_read_value_at(sparseRows, coord),
                     result |-> "ok"]
    /\ UNCHANGED sparseRows
    /\ UNCHANGED notSparse

\* The tensors a mask is taken from: one non-zero value at each coordinate
\* of a set of coordinates.
OtherTensors == { {[coord |-> c, value |-> 1] : c \in cs} : cs \in SUBSET Coords }

NextSparse ==
    \/ \E coord \in Coords, value \in Numbers : WriteValueAt(coord, value)
    \/ \E bounds \in TensorBounds, value \in Numbers : WriteValue(bounds, value)
    \/ \E otherRows \in OtherTensors, sameShape \in BOOLEAN : Mask(otherRows, sameShape)
    \/ \E coord \in Coords : ReadValue(coord)

-----------------------------------------------------------------------------
(* Errors: error/src/lib.rs, and their HTTP responses: host/src/http/server.rs *)

ErrorType == {"BadRequest", "Conflict", "Forbidden", "Internal",
              "MethodNotAllowed", "NotFound", "NotImplemented", "Timeout",
              "Unauthorized"}

\* What a caller passes for a message, a cause, an id, a locator, ...
Texts == {"t1", "t2", "t3", "t4", "t5", "t6"}

\* A String is the sequence of the pieces it was formatted from.
format_colon(a, b) == <<a, ": ", b>>
to_string(a) == <<a>>

\* The constructors of TCError, by name: the error each builds from its
\* arguments (the constructors of one argument ignore b, conflict ignores both).
TCError ==
    [bad_request |-> [a \in Texts, b \in Texts |->
                        [code |-> "Internal", message |-> format_colon(a, b)]],
     conflict |-> [a \in Texts, b \in Texts |->
                        [code |-> "Conflict", message |-> <<>>]],
     forbidden |-> [a \in Texts, b \in Texts |->
                        [code |-> "Forbidden", message |-> format_colon(a, b)]],
     internal |-> [a \in Texts, b \in Texts |->
                        [code |-> "Internal", message |-> to_string(a)]],
     method_not_allowed |-> [a \in Texts, b \in Texts |->
                        [code |-> "MethodNotAllowed", message |-> to_string(a)]],
     not_found |-> [a \in Texts, b \in Texts |->
                        [code |-> "NotFound", message |-> to_string(a)]],
     not_implemented |-> [a \in Texts, b \in Texts |->
                        [code |-> "NotImplemented", message |-> to_string(a)]],
     timeout |-> [a \in Texts, b \in Texts |->
                        [code |-> "Timeout", message |-> to_string(a)]],
     unauthorized |-> [a \in Texts, b \in Texts |->
                        [code |-> "Unauthorized",
                         message |-> <<"invalid credentials: ", a>>]]]

Constructors == DOMAIN TCError

\* The arms of  match err.code()  in transform_error, in their order.
TransformErrorArms ==
    << [pattern |-> "BadGateway", status |-> 502],
       [pattern |-> "BadRequest", status |-> 400],
       [pattern |-> "Forbidden", status |-> 403],
       [pattern |-> "Conflict", status |-> 409],
       [pattern |-> "Internal", status |-> 500],
       [pattern |-> "MethodNotAllowed", status |-> 405],
       [pattern |-> "NotFound", status |-> 404],
       [pattern |-> "NotImplemented", status |-> 501],
       [pattern |-> "Timeout", status |-> 408],
       [pattern |-> "Unauthorized", status |-> 401] >>

\* A pattern that is the name of a variant of ErrorType (all of them are in
\* scope by  use tc_error::ErrorType::* ) matches that variant; an identifier
\* that names no variant is a binding, and a binding matches every value.
arm_matches(pattern, code) ==
    IF pattern \in ErrorType THEN pattern = code ELSE TRUE

\* match: the first arm whose pattern matches.
match_code(code) ==
    LET hits == {i \in DOMAIN TransformErrorArms :
                    arm_matches(TransformErrorArms[i].pattern, code)}
        first == CHOOSE i \in hits : \A j \in hits : i <= j
    IN TransformErrorArms[first].status

transform_error(err) ==
    [status |-> match_code(err.code), body |-> Append(err.message, "\r\n")]

NoError == [constructor |-> "none", code |-> "none", message |-> <<>>,
            status |-> 0, body |-> <<>>]

ErrorInit == httpError = NoError

\* A request fails with the error of one constructor, and HTTPServer::handle
\* answers it with transform_error(cause).
HandleError(constructor, a, b) ==
    /\ LET err == TCError[constructor][a, b]
           res == transform_error(err)
       IN httpError' = [constructor |-> constructor, code |-> err.code,
                        message |-> err.message, status |-> res.status,
                        body |-> res.body]
    /\ UNCHANGED notError

NextError ==
    \E constructor \in Constructors, a \in Texts, b \in Texts :
        HandleError(constructor, a, b)

-----------------------------------------------------------------------------
(* View of the block chain: BlockChain::into_view, host/src/chain/blockchain.rs *)

\* stream::iter(0..(*latest)): the ordinals below latest, ascending.
view_range_inclusive(latest) == [k \in 1..(latest + 1) |-> k - 1]
view_range(latest) == [k \in 1..latest |-> k - 1]

\* file.read_block_owned(txn_id, i): the block as txn_id sees it, or an error
\* if the file has no such block for txn_id.
read_block_owned(t, i) ==
    IF ExistsAt(fileBlocks[i], t) THEN ReadAt(fileBlocks[i], t) ELSE "not_found"

NoView == [txn |-> 0, latest |-> 0, ids |-> <<>>, blocks |-> <<>>]

ViewInit == chainView = NoView

\* BlockChain::into_view(txn), the stream of blocks it returns read to its
\* end.  The reads wait while another TxnId holds a write lock they need.
IntoView(t) ==
    /\ ~chainPanic
    /\ Readable(latestLock, t)
    /\ LET latest == ReadAt(latestLock, t)
           ids == view_range(latest)
       IN  /\ \A k \in DOMAIN ids :
                ids[k] \in BlockIds /\ Readable(fileBlocks[ids[k]], t)
           /\ chainView' = [txn |-> t, latest |-> latest, ids |-> ids,
                            blocks |-> [k \in DOMAIN ids |->
                                           read_block_owned(t, ids[k])]]
    /\ UNCHANGED notView

\* The chain is appended to and committed until the one view of it is taken.
ViewNotTaken == chainView = NoView

NextChainView ==
    \/ \E t \in TxnIds, sz \in MutationSizes : ViewNotTaken /\ ChainAppend(t, sz)
    \/ \E t \in TxnIds : ViewNotTaken /\ CommitSeal(t)
    \/ \E t \in TxnIds : ViewNotTaken /\ CommitLatest(t)
    \/ \E t \in TxnIds : ViewNotTaken /\ CommitSubject(t)
    \/ \E t \in TxnIds : ViewNotTaken /\ CommitFile(t)
    \/ \E t \in TxnIds : ViewNotTaken /\ IntoView(t)

-----------------------------------------------------------------------------
(* Cluster read path: ReplicateHandler::get, host/src/route/cluster.rs *)

Hosts == {"host1", "host2", "host3"}
ClusterPaths == {<<"app">>, <<"lib">>}
\* self.path: the path of the request below the cluster
SubPaths == {<<>>, <<"chain">>, <<"replicas">>}
Keys == {"k1", "k2"}

\* A Link is a host and a path.
ClusterLinks == [host : Hosts, path : ClusterPaths]
NoOwner == [host |-> "none", path |-> <<>>]
\* txn.owner(): the cluster that owns the transaction, if it has one yet
Owners == {NoOwner} \cup ClusterLinks

\* txn.is_owner(cluster_path): the owner is the cluster at that path on the
\* host the transaction is running on.
is_owner(owner, host, cluster_path) ==
    owner = [host |-> host, path |-> cluster_path]

\* The branches of the GET handler: "local" is handler(txn, key), and
\* "forward" is txn.get(link, key) with the owner's link.
get_branch(owner, host, cluster_path) ==
    IF is_owner(owner, host, cluster_path) THEN "local"
    ELSE IF owner # NoOwner
           THEN IF owner.path = cluster_path THEN "forward" ELSE "local"
           ELSE "local"

\* let mut link = owner.clone(); link.extend(self.path.to_vec())
extend(link, path) == [link EXCEPT !.path = @ \o path]

NoGet == [host |-> "none", cluster |-> <<>>, owner |-> NoOwner, path |-> <<>>,
          key |-> "none", served |-> "none", link |-> NoOwner]

GetInit == getRoute = NoGet

\* A GET with a key for the path below the cluster at cluster_path, arriving
\* at a host, in a transaction with that owner.
Get(host, cluster_path, owner, path, key) ==
    /\ getRoute' =
         IF get_branch(owner, host, cluster_path) = "forward"
           THEN [host |-> host, cluster |-> cluster_path, owner |-> owner,
                 path |-> path, key |-> key, served |-> "forward",
                 link |-> extend(owner, path)]
           ELSE [host |-> host, cluster |-> cluster_path, owner |-> owner,
                 path |-> path, key |-> key, served |-> "local",
                 link |-> [host |-> host, path |-> cluster_path \o path]]
    /\ UNCHANGED notGet

NextGet ==
    \E host \in Hosts, cluster_path \in ClusterPaths, owner \in Owners,
       path \in SubPaths, key \in Keys :
        Get(host, cluster_path, owner, path, key)

-----------------------------------------------------------------------------
(* Directories: src/internal/dir.rs                                          *)
(*                                                                           *)
(* A Dir is named by its id: the names, and the TxnIds of the txn_caches,   *)
(* that lead to it from the root Dir.  Nothing in dir.rs inserts into       *)
(* DirState.children, so every entry lives in a txn_cache.                   *)

MaxDirs == 3
ROOT_DIR == <<>>
DirNames == {"x", "y"}
DirPaths == {<<>>} \cup {<<a>> : a \in DirNames}
                \cup {<<a, b>> : a \in DirNames, b \in DirNames}

\* state.children.contains_key(name) / state.children.get(name)
children_get(dir, name) == {}

\* DirState::get_dir: the entry of that name in the txn_cache of txn_id, else
\* in children; the set is empty for None.
state_get_dir_any_txn(nodes, dir, t, name) ==
    {n \in nodes : n.parent = dir /\ n.name = name} \cup children_get(dir, name)
state_get_dir(nodes, dir, t, name) ==
    LET cached == {n \in nodes : n.parent = dir /\ n.name = name /\ n.txn = t}
    IN  IF cached # {} THEN cached ELSE children_get(dir, name)

\* Dir::new(self.fs_path(&path)) inserted into the txn_cache of t
new_dir(nodes, dir, t, name) ==
    [id |-> Append(dir, <<name, t>>), parent |-> dir, name |-> name, txn |-> t]

DirResult(status, dir, nodes, cache) ==
    [status |-> status, dir |-> dir, nodes |-> nodes, cache |-> cache]

RECURSIVE dir_get_dir(_, _, _, _, _)
\* Dir::get_dir
dir_get_dir(nodes, cache, dir, t, path) ==
    IF path = <<>> THEN DirResult("bad_request", ROOT_DIR, nodes, cache)
    ELSE LET found == state_get_dir(nodes, dir, t, path[1])
         IN  IF found = {} THEN DirResult("not_found", ROOT_DIR, nodes, cache)
             ELSE LET d == CHOOSE n \in found : TRUE
                  IN  IF Len(path) = 1 THEN DirResult("ok", d.id, nodes, cache)
                      ELSE dir_get_dir(nodes, cache, d.id, t, Tail(path))

RECURSIVE get_or_create_dir(_, _, _, _, _)
\* Dir::get_or_create_dir; txn_cache.get_mut(&txn_id).unwrap() panics if the
\* txn_cache has no map for txn_id.
get_or_create_dir(nodes, cache, dir, t, path) ==
    IF path = <<>> THEN DirResult("bad_request", ROOT_DIR, nodes, cache)
    ELSE IF Len(path) = 1
      THEN LET found == state_get_dir(nodes, dir, t, path[1])
           IN  IF found # {}
                 THEN DirResult("ok", (CHOOSE n \in found : TRUE).id, nodes, cache)
                 ELSE IF <<dir, t>> \notin cache
                        THEN DirResult("panic", ROOT_DIR, nodes, cache)
                        ELSE LET d == new_dir(nodes, dir, t, path[1])
                             IN  DirResult("ok", d.id, nodes \cup {d}, cache)
      ELSE LET r == get_or_create_dir(nodes, cache, dir, t, <<path[1]>>)
           IN  IF r.status # "ok" THEN r
               ELSE get_or_create_dir(r.nodes, r.cache, r.dir, t, Tail(path))

RECURSIVE create_dir(_, _, _, _, _)
\* Dir::create_dir; state.txn_cache.entry(txn_id).or_insert(HashMap::new())
\* leaves a map for txn_id even when the name is refused.
create_dir(nodes, cache, dir, t, path) ==
    IF path = <<>> THEN DirResult("bad_request", ROOT_DIR, nodes, cache)
    ELSE IF Len(path) = 1
      THEN IF children_get(dir, path[1]) # {}
             THEN DirResult("bad_request", ROOT_DIR, nodes, cache)
             ELSE LET entered == cache \cup {<<dir, t>>}
                      d == new_dir(nodes, dir, t, path[1])
                  IN  IF \E n \in nodes :
                            n.parent = dir /\ n.name = path[1] /\ n.txn = t
                        THEN DirResult("bad_request", ROOT_DIR, nodes, entered)
                        ELSE DirResult("ok", d.id, nodes \cup {d}, entered)
      ELSE LET r == get_or_create_dir(nodes, cache, dir, t, <<path[1]>>)
           IN  IF r.status # "ok" THEN r
               ELSE create_dir(r.nodes, r.cache, r.dir, t, Tail(path))

NoDirRet == [op |-> "none", txn |-> 0, path |-> <<>>, result |-> "none",
             dir |-> ROOT_DIR]

DirInit ==
    /\ dirNodes = {}
    /\ dirCache = {}
    /\ dirRet = NoDirRet

CreateDir(t, path) ==
    LET r == create_dir(dirNodes, dirCache, ROOT_DIR, t, path)
    IN  /\ Cardinality(r.nodes) <= MaxDirs
        /\ dirNodes' = r.nodes
        /\ dirCache' = r.cache
        /\ dirRet' = [op |-> "create_dir", txn |-> t, path |-> path,
                      result |-> r.status, dir |-> r.dir]
        /\ UNCHANGED notDir

GetOrCreateDir(t, path) ==
    LET r == get_or_create_dir(dirNodes, dirCache, ROOT_DIR, t, path)
    IN  /\ Cardinality(r.nodes) <= MaxDirs
        /\ dirNodes' = r.nodes
        /\ dirCache' = r.cache
        /\ dirRet' = [op |-> "get_or_create_dir", txn |-> t, path |-> path,
                      result |-> r.status, dir |-> r.dir]
        /\ UNCHANGED notDir

GetDir(t, path) ==
    LET r == dir_get_dir(dirNodes, dirCache, ROOT_DIR, t, path)
    IN  /\ dirNodes' = r.nodes
        /\ dirCache' = r.cache
        /\ dirRet' = [op |-> "get_dir", txn |-> t, path |-> path,
                      result |-> r.status, dir |-> r.dir]
        /\ UNCHANGED notDir

NextDir ==
    \/ \E t \in TxnIds, path \in DirPaths : CreateDir(t, path)
    \/ \E t \in TxnIds, path \in DirPaths : GetOrCreateDir(t, path)
    \/ \E t \in TxnIds, path \in DirPaths : GetDir(t, path)

-----------------------------------------------------------------------------
(* Tensor reductions: impl TensorReduce for Tensor, src/state/tensor/mod.rs   *)
(*                                                                           *)
(* A Tensor is Dense or Sparse; either way it is a matrix of shape (2, 2),   *)
(* given by its elements.                                                    *)

Variants == {"Dense", "Sparse"}
Matrices == [Coords -> Numbers]
Axes == {0, 1}

\* The coordinate at position i of the axis, k across it.
along(axis, i, k) == IF axis = 0 THEN <<i, k>> ELSE <<k, i>>

\* The reductions of the operand (DenseTensor and SparseTensor implement the
\* same TensorReduce): over one axis, and over all elements.
operand_sum(m, axis) == [k \in 0..1 |-> m[along(axis, 0, k)] + m[along(axis, 1, k)]]
operand_product(m, axis) == [k \in 0..1 |-> m[along(axis, 0, k)] * m[along(axis, 1, k)]]
operand_sum_all(m) == m[<<0, 0>>] + m[<<0, 1>>] + m[<<1, 0>>] + m[<<1, 1>>]
operand_product_all(m) == m[<<0, 0>>] * m[<<0, 1>>] * m[<<1, 0>>] * m[<<1, 1>>]

\* impl TensorReduce for Tensor: each method matches on the variant and calls
\* a method of the operand.
tensor_product(variant, m, axis) ==
    CASE variant = "Dense" -> operand_product(m, axis)
      [] variant = "Sparse" -> operand_product(m, axis)

tensor_product_all(variant, m) ==
    CASE variant = "Dense" -> operand_product_all(m)
      [] variant = "Sparse" -> operand_product_all(m)

tensor_sum(variant, m, axis) ==
    CASE variant = "Dense" -> operand_product(m, axis)
      [] variant = "Sparse" -> operand_product(m, axis)

tensor_sum_all(variant, m) ==
    CASE variant = "Dense" -> operand_product_all(m)
      [] variant = "Sparse" -> operand_product_all(m)

NoReduce == [op |-> "none", variant |-> "none", tensor |-> <<>>, axis |-> 0,
             result |-> 0]

ReduceInit == reduceRet = NoReduce

\* A reduction reads the tensor and changes nothing, so what one returns does
\* not depend on the calls before it: a behaviour makes one call.

Product(variant, m, axis) ==
    /\ reduceRet = NoReduce
    /\ reduceRet' = [op |-> "product", variant |-> variant, tensor |-> m,
                     axis |-> axis, result |-> tensor_product(variant, m, axis)]
    /\ UNCHANGED notReduce

ProductAll(variant, m) ==
    /\ reduceRet = NoReduce
    /\ reduceRet' = [op |-> "product_all", variant |-> variant, tensor |-> m,
                     axis |-> 0, result |-> tensor_product_all(variant, m)]
    /\ UNCHANGED notReduce

Sum(variant, m, axis) ==
    /\ reduceRet = NoReduce
    /\ reduceRet' = [op |-> "sum", variant |-> variant, tensor |-> m,
                     axis |-> axis, result |-> tensor_sum(variant, m, axis)]
    /\ UNCHANGED notReduce

SumAll(variant, m) ==
    /\ reduceRet = NoReduce
    /\ reduceRet' = [op |-> "sum_all", variant |-> variant, tensor |-> m,
                     axis |-> 0, result |-> tensor_sum_all(variant, m)]
    /\ UNCHANGED notReduce

NextReduce ==
    \/ \E variant \in Variants, m \in Matrices, axis \in Axes : Product(variant, m, axis)
    \/ \E variant \in Variants, m \in Matrices : ProductAll(variant, m)
    \/ \E variant \in Variants, m \in Matrices, axis \in Axes : Sum(variant, m, axis)
    \/ \E variant \in Variants, m \in Matrices : SumAll(variant, m)

-----------------------------------------------------------------------------
(* Planning loops, one outer iteration at a time:                            *)
(* TableIndex::slice / order_by / validate_bounds / validate_order           *)

PlanOps == {"slice", "order_by", "validate_bounds", "validate_order"}

\* Which index test the loop of the call uses, and whether its body returns
\* as soon as nothing remains (loop { .. }) or its head tests that
\* (while !bounds.is_empty() { .. }).
loop_mode(op) == IF op \in {"slice", "validate_bounds"} THEN "bounds" ELSE "order"
loop_early(op) == op \in {"slice", "order_by"}

\* What the loop of the call starts with.
loop_input(op, table, cols) ==
    IF loop_mode(op) = "bounds" THEN normalize(table, cols) ELSE cols

\* The call reaches its loop: slice and order_by return before it when the
\* primary index accepts, and order_by when validate_order fails.
reaches_loop(op, table, cols) ==
    CASE op = "slice" -> ~index_validate_bounds(table.primary, cols)
      [] op = "order_by" -> /\ table_validate_order(table, cols).status = "ok"
                            /\ ~index_validate_order(table.primary, cols)
      [] OTHER -> TRUE

\* if bounds.len() == initial / if columns == &initial[..]
no_progress_never(initial, rem) == FALSE
no_progress(initial, rem) == Len(rem) = Len(initial)

NoLoop == [op |-> "none", table |-> <<>>, columns |-> <<>>, rem |-> <<>>,
           passes |-> 0, status |-> "none"]

LoopInit == planLoop = NoLoop

EnterLoop(op, table, cols) ==
    /\ planLoop = NoLoop
    /\ reaches_loop(op, table, cols)
    /\ planLoop' = [op |-> op, table |-> table, columns |-> cols,
                    rem |-> loop_input(op, table, cols), passes |-> 0,
                    status |-> "running"]
    /\ UNCHANGED notLoop

\* The head of  while !rem.is_empty() { .. }  finds nothing left: Ok(()).
LoopExit ==
    /\ planLoop.status = "running"
    /\ ~loop_early(planLoop.op)
    /\ planLoop.rem = <<>>
    /\ planLoop' = [planLoop EXCEPT !.status = "ok"]
    /\ UNCHANGED notLoop

\* One outer iteration: the for loop over the prefix lengths, then the test
\* for progress.
OuterIteration ==
    /\ planLoop.status = "running"
    /\ loop_early(planLoop.op) \/ planLoop.rem # <<>>
    /\ planLoop.passes <= MaxBounds
    /\ LET initial == planLoop.rem
           r == plan_pass(loop_mode(planLoop.op), loop_early(planLoop.op),
                          planLoop.table, planLoop.columns, initial,
                          Len(initial), <<>>)
       IN  planLoop' =
             [planLoop EXCEPT
                !.passes = @ + 1,
                !.rem = r.rem,
                !.status = IF r.status # "continue" THEN r.status
                           ELSE IF no_progress(initial, r.rem) THEN "bad_request"
                           ELSE "running"]
    /\ UNCHANGED notLoop

NextLoop ==
    \/ \E op \in PlanOps, table \in PlanTables, cols \in ColumnLists :
          EnterLoop(op, table, cols)
    \/ LoopExit
    \/ OuterIteration

-----------------------------------------------------------------------------
(* Table transactions: TableIndex::update, and impl Transact for TableIndex  *)
(* (commit, rollback) over the primary and the auxiliary indices             *)

StoreNames == {"primary"} \cup IndexNames

store_schema(n) == IF n = "primary" THEN PrimarySchema ELSE AuxiliarySchema(n)

NewStore == [committed |-> {}, pending |-> {}, dirty |-> FALSE]

\* What the writing TxnId reads from the B-tree of an index.
store_read(store) == IF store.dirty THEN store.pending ELSE store.committed

\* A write of the TxnId replaces its pending version.
store_write(store, tree) == [store EXCEPT !.pending = tree, !.dirty = TRUE]

\* BTreeFile::commit(txn_id): the pending version of txn_id, if any, becomes
\* the committed one.
btree_commit(store) ==
    [committed |-> store_read(store), pending |-> {}, dirty |-> FALSE]

\* BTreeFile::rollback(txn_id): the pending version of txn_id is dropped.
btree_rollback(store) ==
    [committed |-> store.committed, pending |-> {}, dirty |-> FALSE]

\* Index::commit / Index::rollback: self.btree.commit / self.btree.rollback
index_commit(store) == btree_commit(store)
index_rollback(store) == btree_rollback(store)

\* The trees the TxnId sees, in the shape the upsert operators take.
seen_primary(st) == store_read(st["primary"])
seen_auxiliary(st) == [n \in IndexNames |-> store_read(st[n])]

\* TableIndex::upsert(txn_id, row) on the stores.
stores_upsert(st, row) ==
    [n \in StoreNames |->
        IF n = "primary"
          THEN store_write(st[n], upsert_primary(seen_primary(st), row))
          ELSE store_write(st[n], upsert_auxiliary(seen_auxiliary(st), row)[n])]

\* A partial row: values for some of the columns.
PartialRows == UNION {[cs -> Values] : cs \in SUBSET ColumnNames \ {{}}}

RECURSIVE upsert_all(_, _)
\* .map_ok(|row| self.upsert(txn_id, row)) ... try_fold: every row of the
\* stream is upserted, in any order.
upsert_all(st, rows) ==
    IF rows = {} THEN st
    ELSE LET row == CHOOSE r \in rows : TRUE
         IN  upsert_all(stores_upsert(st, row), rows \ {row})

\* TableIndex::update(txn, value): the rows of a copy of the table are
\* streamed and each is upserted as it was read; value is validated only.
table_update(st, value) ==
    upsert_all(st, {values_into_row(PrimarySchema, e) : e \in seen_primary(st)})

NoTransactRet == [op |-> "none", arg |-> <<>>]

TransactInit ==
    /\ stores = [n \in StoreNames |-> NewStore]
    /\ transactRet = NoTransactRet
    /\ transactOps = 0

\* TableIndex::upsert(txn_id, row) by the writing TxnId
TransactUpsert(row) ==
    /\ transactOps < MaxTableOps
    /\ transactOps' = transactOps + 1
    /\ stores' = stores_upsert(stores, row)
    /\ transactRet' = [op |-> "upsert", arg |-> row]
    /\ UNCHANGED notTransact

\* TableIndex::update(txn, value) by the writing TxnId
Update(value) ==
    /\ transactOps < MaxTableOps
    /\ transactOps' = transactOps + 1
    /\ stores' = table_update(stores, value)
    /\ transactRet' = [op |-> "update", arg |-> value]
    /\ UNCHANGED notTransact

\* TableIndex::commit(txn_id):
\*   commits.push(self.primary.commit(txn_id));
\*   for (_, index) in &self.auxiliary { commits.push(index.commit(txn_id)) }
TableCommit ==
    /\ stores' = [n \in StoreNames |-> index_commit(stores[n])]
    /\ transactRet' = [op |-> "commit", arg |-> <<>>]
    /\ UNCHANGED transactOps
    /\ UNCHANGED notTransact

\* TableIndex::rollback(txn_id):
\*   rollbacks.push(self.primary.rollback(txn_id));
\*   for (_, index) in &self.auxiliary { rollbacks.push(index.commit(txn_id)) }
TableRollback ==
    /\ stores' = [n \in StoreNames |->
                     IF n = "primary" THEN index_rollback(stores[n])
                                      ELSE index_commit(stores[n])]
    /\ transactRet' = [op |-> "rollback", arg |-> <<>>]
    /\ UNCHANGED transactOps
    /\ UNCHANGED notTransact

NextTransact ==
    \/ \E row \in Rows : TransactUpsert(row)
    \/ \E value \in PartialRows : Update(value)
    \/ TableCommit
    \/ TableRollback

-----------------------------------------------------------------------------
(* Loading a chain from a directory: BlockChain::load, then the first        *)
(* BlockChain::append (src/host/src/chain/blockchain.rs)                     *)

\* A directory either holds no chain file or holds one with the blocks of
\* some ordinals, possibly none.
ChainDirs ==
    {[file |-> FALSE, blocks |-> {}]} \cup
    {[file |-> TRUE, blocks |-> ids] : ids \in SUBSET (0..MaxAppends)}

\* BlockChain::load(schema, dir, txn_id): what it leaves in the chain file
\* (the blocks that were there and the blocks txn_id created) and the latest
\* it gives to BlockChain::new.
load(dir) ==
    IF dir.file
      THEN [file |-> TRUE, blocks |-> dir.blocks, created |-> {},
            latest |-> load_latest(dir.blocks)]
      ELSE [file |-> TRUE, blocks |-> {},
            created |-> {0},    \* the new file does not contain block 0
            latest |-> 0]

\* fs::File::write_block(txn_id, block_id): not_found unless txn_id sees the
\* block: a committed one, or one that txn_id itself created.
write_block(l, t, block_id) ==
    IF \/ block_id \in l.blocks
       \/ block_id \in l.created /\ t = l.loader
    THEN "ok" ELSE "not_found"

NoChainLoad(dir) ==
    [file |-> dir.file, blocks |-> dir.blocks, created |-> {}, latest |-> 0,
     loader |-> 0, state |-> "none", append |-> "none", appender |-> 0]

NoDir == [file |-> FALSE, blocks |-> {}, created |-> {}, latest |-> 0,
          loader |-> 0, state |-> "down", append |-> "none", appender |-> 0]

LoadInit == chainLoad = NoDir

\* The host is started on a directory.
StartOn(dir) ==
    /\ chainLoad.state = "down"
    /\ chainLoad' = NoChainLoad(dir)
    /\ UNCHANGED notLoad

\* BlockChain::load(schema, dir, txn_id)
LoadDir(t) ==
    /\ chainLoad.state = "none"
    /\ LET r == load(chainLoad)
       IN  chainLoad' = [chainLoad EXCEPT !.file = r.file, !.blocks = r.blocks,
                                          !.created = r.created,
                                          !.latest = r.latest, !.loader = t,
                                          !.state = "loaded"]
    /\ UNCHANGED notLoad

\* The transaction of the load is committed: the blocks it created become
\* blocks of the file.
CommitLoad ==
    /\ chainLoad.state = "loaded"
    /\ chainLoad' = [chainLoad EXCEPT !.blocks = @ \cup chainLoad.created,
                                      !.created = {}, !.state = "committed"]
    /\ UNCHANGED notLoad

\* The first BlockChain::append on the loaded chain, by the transaction of
\* the load or, once that is committed, by a later one:
\*   let latest = self.latest.read(&txn_id).await?;
\*   let mut block = self.file.write_block(txn_id, (*latest).into()).await?;
FirstAppend(t) ==
    /\ chainLoad.append = "none"
    /\ \/ chainLoad.state = "loaded" /\ t = chainLoad.loader
       \/ chainLoad.state = "committed" /\ t >= chainLoad.loader
    /\ chainLoad' = [chainLoad EXCEPT
                        !.append = write_block(chainLoad, t, chainLoad.latest),
                        !.appender = t]
    /\ UNCHANGED notLoad

NextLoad ==
    \/ \E dir \in ChainDirs : StartOn(dir)
    \/ \E t \in TxnIds : LoadDir(t)
    \/ CommitLoad
    \/ \E t \in TxnIds : FirstAppend(t)

-----------------------------------------------------------------------------
(* Sparse tensor, all and comparisons: impl TensorUnary for SparseTensor and *)
(* impl TensorCompare<Tensor> for SparseTensor, host/tensor/src/sparse/mod.rs *)
(*                                                                           *)
(* A tensor is a matrix of shape (2, 2) given by its elements; the filled    *)
(* coordinates of a sparse one are those of its non-zero elements.           *)

\* The position of a coordinate in coordinate (row-major) order.
coord_offset(c) == c[1] * TensorShape[2] + c[2]

\* A set of coordinates as a stream in coordinate order.
in_order(cs) ==
    [i \in 1..Cardinality(cs) |->
        CHOOSE c \in cs : Cardinality({d \in cs : coord_offset(d) < coord_offset(c)}) = i - 1]

\* self.accessor.filled(txn): the coordinates of the non-zero elements.
filled(m) == in_order({c \in Coords : m[c] # zero})

\* SparseTensor::all: filled zipped with Bounds::all(shape).affected(); the
\* zip ends with the shorter stream, and all is false only if a pair differs.
sparse_all(m) ==
    LET actual == filled(m)
        expected == in_order(Coords)
        zipped == IF Len(actual) < Len(expected) THEN Len(actual) ELSE Len(expected)
    IN  \A i \in 1..zipped : actual[i] = expected[i]

\* The operands of the comparisons: every element is zero or the greatest
\* number, so that every pair of elements is less, equal or greater.
Operands == [Coords -> {zero, MaxNumber}]

\* gt of two operands of the same kind (both dense, or both sparse: combine
\* with l > r), element by element.
operand_gt(l, r) == [c \in Coords |-> l[c] > r[c]]

\* impl TensorCompare<Tensor> for SparseTensor: each method matches on the
\* variant of other and calls a method of the dense or of the sparse operand.
sparse_gt(variant, l, r) ==
    CASE variant = "Dense" -> operand_gt(l, r)     \* self.into_dense().gt(other)
      [] variant = "Sparse" -> operand_gt(l, r)    \* self.gt(other)

sparse_lt(variant, l, r) ==
    CASE variant = "Dense" -> operand_gt(l, r)     \* self.into_dense().gt(other)
      [] variant = "Sparse" -> operand_gt(l, r)    \* self.gt(other)

NoSparseCall == [op |-> "none", variant |-> "none", tensor |-> <<>>,
                 other |-> <<>>, result |-> <<>>]

SparseCallInit == sparseCall = NoSparseCall

\* The calls read their operands and change nothing: a behaviour makes one.

\* SparseTensor::all(txn)
All(m) ==
    /\ sparseCall = NoSparseCall
    /\ sparseCall' = [op |-> "all", variant |-> "none", tensor |-> m,
                      other |-> <<>>, result |-> sparse_all(m)]
    /\ UNCHANGED notSparseCall

\* SparseTensor::gt(other: Tensor)
Gt(variant, l, r) ==
    /\ sparseCall = NoSparseCall
    /\ sparseCall' = [op |-> "gt", variant |-> variant, tensor |-> l,
                      other |-> r, result |-> sparse_gt(variant, l, r)]
    /\ UNCHANGED notSparseCall

\* SparseTensor::lt(other: Tensor)
Lt(variant, l, r) ==
    /\ sparseCall = NoSparseCall
    /\ sparseCall' = [op |-> "lt", variant |-> variant, tensor |-> l,
                      other |-> r, result |-> sparse_lt(variant, l, r)]
    /\ UNCHANGED notSparseCall

NextSparseCall ==
    \/ \E m \in Matrices : All(m)
    \/ \E variant \in Variants, l \in Operands, r \in Operands : Gt(variant, l, r)
    \/ \E variant \in Variants, l \in Operands, r \in Operands : Lt(variant, l, r)

-----------------------------------------------------------------------------
(* FileCopier: a queue of files between a writer and the task that consumes  *)
(* it as a Stream (src/internal/archive.rs)                                  *)

MaxFiles == 3

\* The paths a writer may pass: of one segment, or in a subdirectory.
FilePaths == {<<"f">>, <<"g">>, <<"d", "f">>}

\* FileCopier::open(); the consumer has not polled yet.
NewCopier == [open |-> TRUE, waker |-> FALSE, contents |-> <<>>,
              consumer |-> "ready", written |-> <<>>, delivered |-> <<>>,
              panicked |-> FALSE]

CopierInit == copier = NewCopier

\* waker.clone().wake(): the task that registered the waker is scheduled.
wake(consumer) == IF consumer = "pending" THEN "ready" ELSE consumer

\* FileCopier::write_file(path, blocks)
WriteFile(path) ==
    /\ ~copier.panicked
    /\ (copier.open /\ Len(path) = 1) => Len(copier.written) < MaxFiles
    /\ IF ~copier.open \/ Len(path) # 1
         THEN copier' = [copier EXCEPT !.panicked = TRUE]
         ELSE copier' = [copier EXCEPT
                            !.contents = Append(@, path),
                            !.written = Append(@, path),
                            !.consumer = IF copier.waker THEN wake(@) ELSE @]
    /\ UNCHANGED notCopier

\* FileCopier::close(): self.shared_state.lock().unwrap().open = false;
Close ==
    /\ ~copier.panicked
    /\ copier.open
    /\ copier' = [copier EXCEPT !.open = FALSE]
    /\ UNCHANGED notCopier

\* Stream::poll_next, called by the executor when the consuming task is
\* ready to run: at first, after an item, and after a wake.
PollNext ==
    /\ ~copier.panicked
    /\ copier.consumer = "ready"
    /\ IF copier.contents = <<>>
         THEN IF copier.open
                THEN copier' = [copier EXCEPT !.waker = TRUE,
                                              !.consumer = "pending"]
                ELSE copier' = [copier EXCEPT !.consumer = "ended"]
         ELSE copier' = [copier EXCEPT
                            !.contents = Tail(@),
                            !.delivered = Append(@, Head(copier.contents))]
    /\ UNCHANGED notCopier

NextCopier ==
    \/ \E path \in FilePaths : WriteFile(path)
    \/ Close
    \/ PollNext

-----------------------------------------------------------------------------
(* File-backed chain: Chain::new, from, put, until, into_stream              *)
(* (src/internal/chain.rs).  A block is the list of its entries, an entry    *)
(* the TransactionId and the mutations of one put.                           *)

Mutations == {"m", "n"}
ChainEntries == TxnIds \X Mutations
Ordinals == 0..MaxAppends

\* The streams Chain::from is given: up to two blocks of one entry each.
SourceBlocks == {<<e>> : e \in ChainEntries}
SourceStreams == {<<>>} \cup {<<b>> : b \in SourceBlocks}
                        \cup {<<b, c>> : b \in SourceBlocks, c \in SourceBlocks}

NoBlocks == [i \in Ordinals |-> <<>>]

\* FsDir::flush(block_id, header, data): the entries are added to the block.
flush(blocks, block_id, entries) ==
    [blocks EXCEPT ![block_id] = @ \o entries]

RECURSIVE from_fold(_, _, _)
\* stream.fold((0u64, dest), |(i, dest), block| async move {
\*     dest.clone().flush(i.into(), &block[0], &block[1..]).await; (i, dest) })
from_fold(i, blocks, stream) ==
    IF stream = <<>> THEN [i |-> i, blocks |-> blocks]
    ELSE from_fold(i, flush(blocks, i, Head(stream)), Tail(stream))

\* Chain::from(stream, dest): latest_block is the i of the fold.
chain_from(stream) ==
    LET r == from_fold(0, NoBlocks, stream)
    IN  [blocks |-> r.blocks, latest_block |-> r.i]

\* Chain::put(txn_id, mutations): flush(self.latest_block, txn_id, delta)
chain_put(blocks, latest_block, t, m) == flush(blocks, latest_block, <<<<t, m>>>>)

\* Chain::into_stream: for i in 0..self.latest_block { fs_dir.get(i) }
chain_into_stream(blocks, latest_block) ==
    [k \in 1..latest_block |-> blocks[k - 1]]

RECURSIVE mutations_until(_, _)
\* .filter(|(time, _)| time <= &txn_id) and the mutations of what is left
mutations_until(block, t) ==
    IF block = <<>> THEN <<>>
    ELSE (IF Head(block)[1] <= t THEN <<Head(block)[2]>> ELSE <<>>)
         \o mutations_until(Tail(block), t)

RECURSIVE take_while_not_empty(_)
\* .take_while(|block| future::ready(!block.is_empty()))
take_while_not_empty(stream) ==
    IF stream = <<>> \/ Head(stream) = <<>> THEN <<>>
    ELSE <<Head(stream)>> \o take_while_not_empty(Tail(stream))

\* Chain::until(txn_id)
chain_until(blocks, latest_block, t) ==
    LET stream == chain_into_stream(blocks, latest_block)
    IN  take_while_not_empty([k \in 1..Len(stream) |-> mutations_until(stream[k], t)])

NoRead == [op |-> "none", txn |-> 0, result |-> <<>>]

NoFsChain == [made |-> "none", source |-> <<>>, blocks |-> NoBlocks,
              latest_block |-> 0, puts |-> <<>>, read |-> NoRead]

FsChainInit == fsChain = NoFsChain

\* Chain::new(fs_dir)
ChainNew ==
    /\ fsChain.made = "none"
    /\ fsChain' = [fsChain EXCEPT !.made = "new", !.latest_block = 0]
    /\ UNCHANGED notFsChain

\* Chain::from(stream, dest)
ChainFrom(stream) ==
    /\ fsChain.made = "none"
    /\ LET c == chain_from(stream)
       IN  fsChain' = [fsChain EXCEPT !.made = "from", !.source = stream,
                                      !.blocks = c.blocks,
                                      !.latest_block = c.latest_block]
    /\ UNCHANGED notFsChain

\* Chain::put(txn_id, mutations)
ChainPut(t, m) ==
    /\ fsChain.made # "none"
    /\ fsChain.read = NoRead
    /\ Len(fsChain.puts) < MaxAppends
    /\ fsChain' = [fsChain EXCEPT
                      !.blocks = chain_put(@, fsChain.latest_block, t, m),
                      !.puts = Append(@, <<t, m>>)]
    /\ UNCHANGED notFsChain

\* The reads change nothing: a behaviour ends with one.

\* Chain::until(txn_id)
ChainUntil(t) ==
    /\ fsChain.made # "none"
    /\ fsChain.read = NoRead
    /\ fsChain' = [fsChain EXCEPT !.read =
                      [op |-> "until", txn |-> t,
                       result |-> chain_until(fsChain.blocks, fsChain.latest_block, t)]]
    /\ UNCHANGED notFsChain

\* Chain::into_stream
ChainIntoStream ==
    /\ fsChain.made # "none"
    /\ fsChain.read = NoRead
    /\ fsChain' = [fsChain EXCEPT !.read =
                      [op |-> "into_stream", txn |-> 0,
                       result |-> chain_into_stream(fsChain.blocks, fsChain.latest_block)]]
    /\ UNCHANGED notFsChain

NextFsChain ==
    \/ ChainNew
    \/ \E stream \in SourceStreams : ChainFrom(stream)
    \/ \E t \in TxnIds, m \in Mutations : ChainPut(t, m)
    \/ \E t \in TxnIds : ChainUntil(t)
    \/ ChainIntoStream

-----------------------------------------------------------------------------
(* Specifications *)

\* The chain with its whole life: finalize, and a host that can go down and
\* load the chain again.
NextChainHost ==
    \/ \E t \in TxnIds, sz \in MutationSizes : ChainAppend(t, sz)
    \/ \E t \in TxnIds : CommitSeal(t)
    \/ \E t \in TxnIds : CommitLatest(t)
    \/ \E t \in TxnIds : CommitSubject(t)
    \/ \E t \in TxnIds : CommitFile(t)
    \/ \E t \in TxnIds : Finalize(t)
    \/ Crash
    \/ Load

Init == ClusterInit /\ TableInit /\ ChainInit /\ PlannerInit /\ SparseInit
        /\ ErrorInit /\ ViewInit /\ GetInit /\ DirInit /\ ReduceInit
        /\ LoopInit /\ TransactInit /\ LoadInit /\ SparseCallInit
        /\ CopierInit /\ FsChainInit

SpecCluster == Init /\ [][NextCluster]_vars

SpecTable == Init /\ [][NextTable]_vars

SpecChain == Init /\ [][NextChain]_vars

SpecChainHost == Init /\ [][NextChainHost]_vars

SpecPlanner == Init /\ [][NextPlanner]_vars

SpecSparse == Init /\ [][NextSparse]_vars

SpecError == Init /\ [][NextError]_vars

SpecChainView == Init /\ [][NextChainView]_vars

SpecGet == Init /\ [][NextGet]_vars

SpecDir == Init /\ [][NextDir]_vars

SpecReduce == Init /\ [][NextReduce]_vars

SpecLoop == Init /\ [][NextLoop]_vars

SpecTransact == Init /\ [][NextTransact]_vars

SpecLoad == Init /\ [][NextLoad]_vars

SpecSparseCall == Init /\ [][NextSparseCall]_vars

SpecCopier == Init /\ [][NextCopier]_vars

SpecFsChain == Init /\ [][NextFsChain]_vars

\* The executor polls a task that is ready to run, and the writer closes the
\* FileCopier when it has written its files (FileCopier::copy).
SpecCopierFair ==
    Init /\ [][NextCopier]_vars /\ WF_vars(PollNext) /\ WF_vars(Close)

-----------------------------------------------------------------------------
(* Claims about the cluster write path *)

WriteFanOutRan == isOwner /\ localResult = "ok" /\ ret.op \notin {"local", "read"}
AllResponded == \A r \in replicas : response[r] # "none"
NoConflictResponse == \A r \in replicas : response[r] # Conflict
OkResponses == {r \in replicas : response[r] = "ok"}
CeilHalf(n) == (n + 1) \div 2

\* C1 (as stated): once the handler has returned, if any replica's result is a
\* Conflict then the fan-out returned a Conflict, whatever the arrival order and
\* whatever the other replicas answered.
C1_AnyConflictIsReturned ==
    (pc = "done" /\ WriteFanOutRan /\ \E r \in replicas : response[r] = Conflict)
        => (ret.kind = Conflict /\ ret.op = "write")

\* C1 (amended): a Conflict result that results.next() yields is returned at
\* once: the handler is done, what it returned is that replica's Conflict, no
\* later result was taken from the stream, and no DELETE was sent.
C1_ReceivedConflictIsReturned ==
    \A r \in received :
        response[r] = Conflict
            => /\ pc = "done"
               /\ ret = Err(Conflict, "write", r)
               /\ lastReceived = r
               /\ deletesSent = {}

\* C1 witness: a Conflict was returned after an earlier non-conflict failure
\* while another replica's result had not been awaited.
C1_Witness ==
    /\ pc = "done"
    /\ ret.kind = Conflict /\ ret.op = "write"
    /\ failed # {}
    /\ received # replicas

\* C2 (as stated): with no Conflict among the replicas' results and at least
\* ceil(N/2) successes, replicate_write returns success.
C2_QuorumReturnsOk ==
    (/\ pc = "done" /\ WriteFanOutRan
     /\ AllResponded /\ NoConflictResponse
     /\ Cardinality(OkResponses) >= CeilHalf(Cardinality(replicas)))
        => ret = Ok

\* C2 (amended): with no Conflict among the replicas' results and at least
\* ceil(N/2) successes, replicate_write never returns a write error: it sends
\* the DELETEs to the replicas that succeeded and returns success when all of
\* them succeed, and the error of a DELETE that failed otherwise.
C2_QuorumReturnsOkUnlessDeleteFails ==
    (/\ pc = "done" /\ WriteFanOutRan
     /\ AllResponded /\ NoConflictResponse
     /\ Cardinality(OkResponses) >= CeilHalf(Cardinality(replicas)))
        => \/ /\ ret = Ok
              /\ succeeded = OkResponses
              /\ deleteDone = succeeded
           \/ /\ ret.op = "delete" /\ ret.kind # "ok"
              /\ ret.from \in succeeded \ deleteDone

\* C2 witness: success with one replica failed, the minimum quorum of N = 3.
C2_Witness ==
    /\ pc = "done" /\ ret = Ok
    /\ Cardinality(replicas) = 3
    /\ Cardinality(failed) = 1
    /\ Cardinality(succeeded) = 2

\* C3: as soon as more than floor(N/2) replicas have failed with a
\* non-conflict error, the handler has returned the error of the result
\* received last, exactly floor(N/2) + 1 replicas are in failed, and no DELETE
\* has been sent; and a non-conflict write error is returned in no other case.
C3_QuorumFailureReturnsLatestError ==
    /\ Cardinality(failed) > Cardinality(replicas) \div 2
        => /\ pc = "done"
           /\ lastReceived \in failed
           /\ response[lastReceived] \in NonConflictErrors
           /\ ret = Err(response[lastReceived], "write", lastReceived)
           /\ Cardinality(failed) = (Cardinality(replicas) \div 2) + 1
           /\ deletesSent = {}
    /\ (ret.op = "write" /\ ret.kind \in NonConflictErrors)
        => Cardinality(failed) > Cardinality(replicas) \div 2

\* C3 witness: N = 3, two failures, the second one received last and returned
\* while the third replica was not awaited.
C3_Witness ==
    /\ pc = "done"
    /\ Cardinality(replicas) = 3
    /\ failed = {1, 2}
    /\ lastReceived = 2
    /\ ret = Err(response[2], "write", 2)
    /\ response[1] # response[2]

\* C4: no DELETE on /replicas is sent before every write result is in; and
\* when all results are in with no Conflict and at most floor(N/2) failures,
\* the DELETEs have gone to exactly the succeeded replicas, each carrying the
\* whole failed set, with succeeded and failed partitioning the replica set.
C4_DeletesGoToSucceededWithFailed ==
    /\ deletesSent # {} => received = replicas
    /\ (/\ replicas # {} /\ received = replicas
        /\ \A r \in replicas : response[r] # Conflict
        /\ Cardinality(failed) <= Cardinality(replicas) \div 2)
        => /\ pc \in {"deletes", "done"}
           /\ deletesSent = succeeded
           /\ deletesSent \cap failed = {}
           /\ deletePayload = failed
           /\ succeeded \cap failed = {}
           /\ succeeded \cup failed = replicas

\* C4 witness: the DELETEs are out to two survivors, carrying one failed replica.
C4_Witness ==
    /\ pc = "deletes"
    /\ Cardinality(deletesSent) = 2
    /\ Cardinality(deletePayload) = 1
    /\ deleteDone = {}

\* C5: a request reaches a replica only after the local handler has run and
\* succeeded and only on the owner: otherwise nothing is sent to any replica.
C5_FanOutOnlyByOwnerAfterLocalSuccess ==
    /\ (writesSent # {} \/ deletesSent # {} \/ pc \in {"replicas", "collect", "deletes"})
        => (isOwner /\ localResult = "ok")
    /\ (pc = "done" /\ (~isOwner \/ localResult # "ok"))
        => (writesSent = {} /\ deletesSent = {} /\ replicas = {})
    /\ (pc = "done" /\ localResult # "ok") => ret = Err(localResult, "local", 0)

\* C5 witness: a non-owner whose local DELETE handler succeeded returned Ok
\* with nothing sent.
C5_Witness ==
    /\ pc = "done" /\ method = "DELETE"
    /\ ~isOwner /\ localResult = "ok"
    /\ ret = Ok /\ writesSent = {}

\* C29: the assertion result.is_err() in replicate_write never fails: in
\* every execution and every arrival order of the results, whenever more than
\* max_failures = floor(N / 2) replicas are found in failed, the result just
\* processed is an error; the threshold is never found exceeded after a
\* successful result.
C29_AssertNeverFails ==
    /\ panicked = FALSE
    /\ pc # "panic"
    /\ Cardinality(failed) > Cardinality(replicas) \div 2 =>
          /\ lastReceived \in failed
          /\ response[lastReceived] \in NonConflictErrors

\* C29 witness: of three replicas one succeeded before two failed; the second
\* failure exceeded max_failures = 1 and replicate_write returned its error.
C29_Witness ==
    /\ pc = "done"
    /\ Cardinality(replicas) = 3
    /\ Cardinality(succeeded) = 1
    /\ Cardinality(failed) = 2
    /\ lastReceived \in failed
    /\ ret.kind \in NonConflictErrors

-----------------------------------------------------------------------------
(* Claims about the table index set *)

\* The primary key of a primary B-tree entry or of a key ++ value tuple.
KeyOf(e) == SubSeq(e, 1, Len(PrimarySchema.key))

\* The auxiliary index entry that belongs to a primary B-tree entry.
Projection(n, e) ==
    row_into_values(AuxiliarySchema(n), values_into_row(PrimarySchema, e))

\* C6: every auxiliary index holds exactly the projections of the rows of the
\* primary index: no primary row lacks its auxiliary row and no auxiliary row
\* is without a primary row that projects to it.
C6_AuxiliaryMatchesPrimary ==
    \A n \in IndexNames : auxiliary[n] = {Projection(n, e) : e \in primary}

\* C7: after an upsert the primary index holds exactly one row with the
\* upserted primary key, the upserted row, and no two rows of the primary
\* index ever share a primary key.
C7_UpsertOverwrites ==
    /\ tableRet.op = "upsert"
        => {e \in primary : KeyOf(e) = KeyOf(tableRet.row)} = {tableRet.row}
    /\ \A e1, e2 \in primary : KeyOf(e1) = KeyOf(e2) => e1 = e2

\* C8: a step that is an insert of a primary key some row of the primary
\* index has ends in bad_request and leaves the primary and every auxiliary
\* index as they were.
C8_InsertExistingKeyRejected ==
    [][(/\ tableOps' = tableOps + 1
        /\ tableRet'.op = "insert"
        /\ \E e \in primary : KeyOf(e) = KeyOf(tableRet'.row))
          => /\ tableRet'.result = "bad_request"
             /\ primary' = primary
             /\ auxiliary' = auxiliary]_vars

\* C8 witness: an insert was rejected on a table that holds its key with
\* other values.
C8_Witness ==
    /\ tableRet.op = "insert"
    /\ tableRet.result = "bad_request"
    /\ tableRet.row \notin primary
    /\ \E e \in primary : KeyOf(e) = KeyOf(tableRet.row)

-----------------------------------------------------------------------------
(* Claims about the block chain *)

\* Every content block i has for some TxnId: its committed versions and its
\* pending version.
Contents(i) ==
    {v[2] : v \in fileBlocks[i].committed}
        \cup (IF fileBlocks[i].writer # 0 THEN {fileBlocks[i].pending} ELSE {})

\* The greatest committed value of latest.
CommittedLatest ==
    CHOOSE n \in {v[2] : v \in latestLock.committed} :
        \A v \in latestLock.committed : v[2] <= n

\* The step is commit(t) reaching its join!.
IsSealStep(t) == txnState[t] = "active" /\ txnState'[t] = "joining"

\* C9: when commit(t) reaches its join!, with latest and its block as read at
\* t before the step: if the block's size is below BLOCK_SIZE, latest and the
\* chain file are unchanged; otherwise latest as read at t has grown by exactly
\* one, the block with the new ordinal did not exist and now is an empty block
\* whose predecessor hash is the hash of the block read, and no other block
\* changed.
C9_CommitSealsFullBlock ==
    [][\A t \in TxnIds :
         IsSealStep(t) =>
           LET latest == ReadAt(latestLock, t)
               block == ReadAt(fileBlocks[latest], t)
           IN  IF BlockSizeOf(block) < BLOCK_SIZE
                 THEN /\ latestLock' = latestLock
                      /\ fileBlocks' = fileBlocks
                 ELSE /\ ReadAt(latestLock', t) = latest + 1
                      /\ ~ExistsAt(fileBlocks[latest + 1], t)
                      /\ ExistsAt(fileBlocks'[latest + 1], t)
                      /\ ReadAt(fileBlocks'[latest + 1], t)
                            = [hash |-> BlockHash(block), mutations |-> <<>>]
                      /\ \A i \in BlockIds \ {latest + 1} :
                            fileBlocks'[i] = fileBlocks[i]]_vars

\* C9 witness: block 0 stayed open at the commit of TxnId 1 with 995,000
\* bytes, was sealed by the commit of TxnId 2 after 5,000 bytes more (exactly
\* BLOCK_SIZE), and block 1 carries the hash of the sealed block 0.
C9_Witness ==
    /\ txnState[1] = "committed" /\ txnState[2] = "committed"
    /\ latestLock.committed = {<<0, 0>>, <<2, 1>>}
    /\ \E b \in Contents(0) :
          /\ <<2, b>> \in fileBlocks[0].committed
          /\ b.mutations = <<[txn |-> 1, size |-> 994968], [txn |-> 2, size |-> 5000]>>
          /\ BlockSizeOf(b) = BLOCK_SIZE
          /\ <<2, NewChainBlock(BlockHash(b))>> \in fileBlocks[1].committed

\* C10: a step gives a block a content it did not have only if the block's
\* ordinal is not below the committed latest, and the step is either a
\* successful append by a TxnId t to the block whose ordinal is latest as
\* read at t, or the creation of block latest + 1 by a commit that seals;
\* and no append changes latest.
C10_OnlyLatestBlockIsWritten ==
    [][/\ \A i \in BlockIds :
            ~(Contents(i)' \subseteq Contents(i)) =>
              /\ i >= CommittedLatest
              /\ \/ /\ appends' = appends + 1
                    /\ chainRet'.result = "ok"
                    /\ chainRet'.block = i
                    /\ i = ReadAt(latestLock, chainRet'.txn)
                 \/ /\ appends' = appends
                    /\ Contents(i) = {}
                    /\ \E t \in TxnIds :
                          IsSealStep(t) /\ i = ReadAt(latestLock, t) + 1
       /\ appends' = appends + 1 => latestLock' = latestLock]_vars

\* C10 witness: after TxnId 1 sealed block 0, TxnId 2 appended to block 1,
\* and an append to block 0 was refused.
C10_Witness ==
    /\ txnState[1] = "committed"
    /\ CommittedLatest = 1
    /\ chainRet = [txn |-> 2, block |-> 1, result |-> "ok"]
    /\ Cardinality(Contents(0)) > 1


\* The content of block i that its latest commit left.
FinalBlock(i) ==
    (CHOOSE v \in fileBlocks[i].committed :
        \A w \in fileBlocks[i].committed : w[1] <= v[1])[2]

\* No commit is between its three commits.
NoCommitInProgress == \A t \in TxnIds : txnState[t] # "joining"

\* C11: of the committed blocks, block 0 has the predecessor hash NULL_HASH
\* and every block i with 0 < i <= latest has the hash of the final content of
\* block i - 1; and whenever no commit is in progress, every block up to the
\* committed latest is a committed block.
C11_HashChainToNullHash ==
    /\ \A i \in 0..CommittedLatest :
          fileBlocks[i].committed # {} =>
            /\ i = 0 => FinalBlock(i).hash = NULL_HASH
            /\ i > 0 => /\ fileBlocks[i - 1].committed # {}
                        /\ FinalBlock(i).hash = BlockHash(FinalBlock(i - 1))
    /\ NoCommitInProgress =>
          \A i \in 0..CommittedLatest : fileBlocks[i].committed # {}

\* C11 witness: block 0 was sealed with two mutations and committed, and the
\* committed block 1 carries its hash.
C11_Witness ==
    /\ NoCommitInProgress
    /\ CommittedLatest = 1
    /\ fileBlocks[1].committed # {}
    /\ Len(FinalBlock(0).mutations) = 2
    /\ FinalBlock(1).hash = BlockHash(FinalBlock(0))
    /\ FinalBlock(1).hash # NULL_HASH


\* The ordinals of the committed blocks, and the mutations they hold with
\* their places.
CommittedIds == {i \in BlockIds : fileBlocks[i].committed # {}}
CommittedMutations ==
    UNION { { <<i, k, FinalBlock(i).mutations[k]>> :
                k \in 1..Len(FinalBlock(i).mutations) } : i \in CommittedIds }

\* C12: a step in which the host goes down loses no mutation of a committed
\* block; and a load after it sets latest, for every TxnId, to the greatest
\* ordinal of a block of the chain file, so that every mutation that was in a
\* committed block is in a block that is not above latest.
C12_LoadRecoversLatest ==
    [][/\ (~down /\ down') => CommittedMutations \subseteq CommittedMutations'
       /\ (down /\ ~down') =>
            /\ CommittedMutations \subseteq CommittedMutations'
            /\ \A t \in TxnIds :
                  /\ ReadAt(latestLock', t) \in CommittedIds'
                  /\ \A i \in CommittedIds' : i <= ReadAt(latestLock', t)
            /\ \A m \in CommittedMutations : m[1] <= ReadAt(latestLock', 1)]_vars

\* C12 witness: the host went down between the commit of the block file and
\* the commit of latest of a sealing commit; the load set latest to 1, and
\* the mutations of block 0 are still there.
C12_Witness ==
    /\ ~down
    /\ \E t \in TxnIds :
          /\ txnState[t] = "crashed"
          /\ "file" \in joinDone[t]
          /\ "latest" \notin joinDone[t]
    /\ latestLock = NewLock(1)
    /\ Len(FinalBlock(0).mutations) = 2

\* C13: the commit of latest at a TxnId has completed only if the commit of
\* the block file at that TxnId has.
C13_FileCommittedBeforeLatest ==
    \A t \in TxnIds : "latest" \in joinDone[t] => "file" \in joinDone[t]

\* C14: every call finalize(txn) makes on latest, the subject and the block
\* file is a finalize, and each of the three has been called.
C14_FinalizeCallsFinalize ==
    \A t \in TxnIds :
       txnState[t] = "finalized" =>
         /\ \A c \in finalizeCalls : c.txn = t => c.method = "finalize"
         /\ \A r \in JoinParts :
               [txn |-> t, resource |-> r, method |-> "finalize"] \in finalizeCalls


-----------------------------------------------------------------------------
(* Claims about the query planner *)

\* The table of the planner scenario: key (a, b), auxiliary index by_c on (c).
TableByC == CHOOSE t \in PlanTables : t.primary.key = <<"a", "b">>
\* The table with two auxiliary indices that start with c: c_then_b,
\* declared first, and by_c.
TableTwoOnC == CHOOSE t \in PlanTables : Len(t.indices) = 2

PlannedBounds == plan.op \in {"slice", "validate_bounds"}

\* Some index of the table accepts the part, as the map of bounds iterates.
SomeIndexAccepts(mode, table, iteration, part) ==
    \E k \in 1..Len(primary_then_auxiliary(table)) :
       accepts(mode, primary_then_auxiliary(table)[k].schema, iteration, part)

RECURSIVE Coverable(_, _, _, _)
\* At every planning step some index accepts a non-empty prefix of what
\* remains, the longest such prefix being dropped at each step.
Coverable(mode, table, iteration, rem) ==
    IF rem = <<>> THEN TRUE
    ELSE LET P == {i \in 1..Len(rem) :
                     SomeIndexAccepts(mode, table, iteration, SubSeq(rem, 1, i))}
         IN  /\ P # {}
             /\ Coverable(mode, table, iteration,
                          SubSeq(rem, 1 + (CHOOSE i \in P : \A j \in P : j <= i), Len(rem)))

\* The accepting index the tie-break names: the primary index if it
\* accepts, else the accepting auxiliary index declared first.
EarliestDeclared(table, iteration, part) ==
    IF accepts("bounds", table.primary, iteration, part) THEN PRIMARY_INDEX
    ELSE LET ok == {k \in 1..Len(table.indices) :
                      accepts("bounds", create_index(table.primary, table.indices[k].key),
                              iteration, part)}
         IN  IF ok = {} THEN "none"
             ELSE table.indices[CHOOSE k \in ok : \A j \in ok : k <= j].name

\* C15: every step of the plan of a slice that succeeded slices the index
\* that accepted the step's bounds; for key (a, b), by_c on (c) and bounds on
\* a and c, the plan is the primary index on a, then by_c on c.
C15_SlicedFromAcceptingIndex ==
    (plan.op = "slice" /\ plan.result = "ok") =>
       /\ \A k \in 1..Len(plan.steps) :
             plan.steps[k].sliced_from = plan.steps[k].accepted_by
       /\ (plan.table = TableByC /\ plan.columns = <<"a", "c">>) =>
             plan.steps = << [accepted_by |-> PRIMARY_INDEX, sliced_from |-> PRIMARY_INDEX,
                              subset |-> <<"a">>],
                             [accepted_by |-> "by_c", sliced_from |-> "by_c",
                              subset |-> <<"c">>] >>

\* C16: slice and validate_bounds, called with bounds on columns of the
\* table, return bad_request exactly when some planning step has no index
\* that accepts a non-empty prefix of the remaining normalized bounds, and
\* succeed otherwise.
C16_RejectedIffNoIndexAccepts ==
    (PlannedBounds /\ bounds_validate(plan.columns, columns(plan.table.primary))) =>
       IF Coverable("bounds", plan.table, plan.columns,
                    normalize(plan.table, plan.columns))
         THEN plan.result = "ok"
         ELSE plan.result = "bad_request"

\* C17: slice and validate_bounds return bad_request for bounds that name a
\* column the table does not have.
C17_UnknownColumnRejected ==
    (PlannedBounds /\ ~bounds_validate(plan.columns, columns(plan.table.primary))) =>
       plan.result = "bad_request"

\* C18: supporting_index returns, and every step of a slice plan is accepted
\* by, the primary index if it accepts and else the accepting auxiliary index
\* declared first.
C18_EarliestDeclaredWins ==
    /\ (plan.op = "supporting_index" /\ plan.result = "ok") =>
          plan.view = EarliestDeclared(plan.table, plan.columns, plan.columns)
    /\ (plan.op = "slice" /\ plan.result = "ok") =>
          \A k \in 1..Len(plan.steps) :
             plan.steps[k].accepted_by =
                EarliestDeclared(plan.table, plan.columns, plan.steps[k].subset)

\* C19: order_by returns a view when the order columns can be covered by
\* successive index prefixes and bad_request when they cannot, and nothing
\* else.
C19_OrderByViewOrBadRequest ==
    plan.op = "order_by" =>
       IF Coverable("order", plan.table, plan.columns, plan.columns)
         THEN plan.result = "ok"
         ELSE plan.result = "bad_request"


\* C25: for a TableIndex, key() returns the primary-key columns and values()
\* returns the remaining columns of the primary index; the two are disjoint
\* and together they are the columns of the primary index.
C25_KeyAndValuesPartitionColumns ==
    plan.op = "key_values" =>
       /\ plan.view.key = plan.table.primary.key
       /\ plan.view.values = plan.table.primary.values
       /\ \A i \in 1..Len(plan.view.key), j \in 1..Len(plan.view.values) :
             plan.view.key[i] # plan.view.values[j]
       /\ plan.view.key \o plan.view.values = columns(plan.table.primary)

\* C30: in TableIndex::validate_bounds and TableIndex::slice every prefix
\* bounds[..i] that is taken is at most as long as the bounds that remain: no
\* iteration slices beyond the end of the shortened list (which is the panic
\* of the model's plan_pass).
C30_PrefixWithinRemainingBounds ==
    PlannedBounds => plan.result # "panic"

-----------------------------------------------------------------------------
(* Claims about the sparse tensor *)

\* C20: after every step of write_value_at, write_value, mask and
\* read_value, no stored row has the value zero and no coordinate has two
\* rows; a write of zero, and a mask, leave no row at the coordinates they
\* are about; and read_value at a coordinate without a row returns zero.
C20_NoStoredZero ==
    [][/\ \A r \in sparseRows' : r.value # 0
       /\ \A r, q \in sparseRows' : r.coord = q.coord => r = q
       /\ (sparseRet'.result = "ok" /\ sparseRet'.value = 0
              /\ sparseRet'.op \in {"write_value_at", "write_value", "mask"}) =>
             \A r \in sparseRows' : r.coord \notin sparseRet'.coords
       /\ (sparseRet'.op = "read_value"
              /\ \A r \in sparseRows : r.coord \notin sparseRet'.coords) =>
             sparseRet'.value = 0]_vars

\* C20 witness: zero was written at (0, 0), no row is there, and the other
\* three coordinates hold rows.
C20_Witness ==
    /\ sparseRet = [op |-> "write_value_at", coords |-> {<<0, 0>>}, value |-> 0,
                    result |-> "ok"]
    /\ \A r \in sparseRows : r.coord # <<0, 0>>
    /\ Cardinality(sparseRows) = 3

-----------------------------------------------------------------------------
(* Claims about errors and their HTTP responses *)

\* The canonical status code of each error kind (spec 6.3).
CanonicalStatus ==
    [BadRequest |-> 400, Conflict |-> 409, Forbidden |-> 403, Internal |-> 500,
     MethodNotAllowed |-> 405, NotFound |-> 404, NotImplemented |-> 501,
     Timeout |-> 408, Unauthorized |-> 401]

\* C21: transform_error answers an error of kind bad_request, conflict,
\* forbidden, internal, method_not_allowed, not_found, not_implemented,
\* timeout, unauthorized with HTTP status 400, 409, 403, 500, 405, 404, 501,
\* 408, 401 respectively.
C21_CanonicalStatus ==
    httpError.code \in ErrorType =>
        httpError.status = CanonicalStatus[httpError.code]

\* The name of the ErrorType each constructor is named after.
SameName ==
    [bad_request |-> "BadRequest", conflict |-> "Conflict",
     forbidden |-> "Forbidden", internal |-> "Internal",
     method_not_allowed |-> "MethodNotAllowed", not_found |-> "NotFound",
     not_implemented |-> "NotImplemented", timeout |-> "Timeout",
     unauthorized |-> "Unauthorized"]

\* C22: each TCError constructor returns an error whose code() is the
\* ErrorType of the same name, so an error raised as bad_request reaches the
\* caller as bad_request.
C22_CodeOfSameName ==
    httpError.constructor \in Constructors =>
        httpError.code = SameName[httpError.constructor]

-----------------------------------------------------------------------------
(* Claims about the view of the block chain *)

\* C23: BlockChain::into_view(txn) yields exactly the blocks 0 .. latest - 1,
\* in ascending order, each as read at txn, where latest is the value of
\* latest read at txn; the open block latest is not part of the view, and the
\* view is empty when latest is 0.
C23_ViewIsSealedBlocks ==
    [][\A t \in TxnIds :
         (chainView' # chainView /\ chainView'.txn = t) =>
           LET latest == ReadAt(latestLock, t)
               ids == chainView'.ids
           IN  /\ Len(ids) = latest
               /\ \A k \in 1..latest : ids[k] = k - 1
               /\ \A k \in 1..Len(ids) : ids[k] # latest
               /\ Len(chainView'.blocks) = Len(ids)
               /\ \A k \in 1..Len(ids) :
                     ExistsAt(fileBlocks[ids[k]], t) =>
                        chainView'.blocks[k] = ReadAt(fileBlocks[ids[k]], t)
               /\ latest = 0 => chainView'.blocks = <<>>]_vars

\* C23 witness: a view taken at a TxnId for which latest is 1 holds block 0
\* alone, sealed with two mutations; the open block 1 is not in it.
C23_Witness ==
    /\ chainView.txn # 0
    /\ chainView.latest = 1
    /\ chainView.ids = <<0>>
    /\ Len(chainView.blocks[1].mutations) = 2
    /\ ExistsAt(fileBlocks[1], chainView.txn)

-----------------------------------------------------------------------------
(* Claims about the cluster read path *)

\* The cluster the GET reached is the owner of its transaction.
ReachedOwner ==
    getRoute.owner = [host |-> getRoute.host, path |-> getRoute.cluster]

\* The GET was routed through a cluster.
GetRouted == getRoute.served # "none"

\* C24: a GET routed through a cluster that is not the owner of the
\* transaction is served by the local handler and is never forwarded to
\* another host.
C24_NonOwnerServesLocally ==
    (GetRouted /\ ~ReachedOwner) =>
        /\ getRoute.served = "local"
        /\ getRoute.link.host = getRoute.host

-----------------------------------------------------------------------------
(* Claims about directories *)

\* The directory with that id.
DirNode(nodes, id) == CHOOSE n \in nodes : n.id = id

RECURSIVE OwnDirsAt(_, _, _, _)
\* The directories at the path below dir that are entries of TxnId t all the
\* way down.
OwnDirsAt(nodes, dir, t, path) ==
    LET first == {n \in nodes : n.parent = dir /\ n.name = path[1] /\ n.txn = t}
    IN  IF Len(path) = 1 THEN first
        ELSE UNION {OwnDirsAt(nodes, n.id, t, Tail(path)) : n \in first}

\* What a TxnId can observe of the directories: its own entries, and the
\* maps its own calls left.
ObservedBy(nodes, cache, t) ==
    <<{n \in nodes : n.txn = t}, {c \in cache : c[2] = t}>>

\* C26: a directory created by create_dir or get_or_create_dir under a TxnId
\* is returned by get_dir only for that TxnId (every directory get_dir returns
\* is one the calling TxnId created itself); get_dir under a TxnId that has
\* not created a directory at the path itself returns not_found, whatever
\* other TxnIds created there; and a creation changes nothing that another
\* TxnId observes.
C26_DirVisibleOnlyToItsTxn ==
    [][/\ (dirRet'.op = "get_dir" /\ dirRet'.result = "ok") =>
             /\ DirNode(dirNodes, dirRet'.dir).txn = dirRet'.txn
             /\ dirRet'.dir \in
                   {n.id : n \in OwnDirsAt(dirNodes, ROOT_DIR, dirRet'.txn, dirRet'.path)}
       /\ (dirRet'.op = "get_dir" /\ dirRet'.path # <<>>
              /\ OwnDirsAt(dirNodes, ROOT_DIR, dirRet'.txn, dirRet'.path) = {}) =>
             dirRet'.result = "not_found"
       /\ \A t \in TxnIds :
             dirRet'.txn # t =>
                ObservedBy(dirNodes', dirCache', t) = ObservedBy(dirNodes, dirCache, t)
       /\ dirRet'.op = "get_dir" => (dirNodes' = dirNodes /\ dirCache' = dirCache)]_vars

\* C26 witness: TxnId 1 has created /x with create_dir and /x/y with
\* get_or_create_dir, and get_dir(/x/y) under TxnId 2 returned not_found.
C26_Witness ==
    /\ dirRet = [op |-> "get_dir", txn |-> 2, path |-> <<"x", "y">>,
                 result |-> "not_found", dir |-> ROOT_DIR]
    /\ OwnDirsAt(dirNodes, ROOT_DIR, 1, <<"x", "y">>) # {}
    /\ OwnDirsAt(dirNodes, ROOT_DIR, 2, <<"x">>) = {}

\* C37 (as stated): Dir::get_or_create_dir(txn, name) with a name of one
\* segment returns a directory for every TxnId and never panics, also when
\* txn has made no earlier change in the directory.
C37_GetOrCreateDirReturnsDir ==
    (dirRet.op = "get_or_create_dir" /\ Len(dirRet.path) = 1) =>
        /\ dirRet.result = "ok"
        /\ dirRet.dir \in {n.id : n \in dirNodes}

-----------------------------------------------------------------------------
(* Claims about the order of the chain's mutations *)

RECURSIVE ConcatBlocks(_, _, _)
\* The mutations of the blocks i .. latest, as read at TxnId t, end to end.
ConcatBlocks(t, i, latest) ==
    IF i > latest THEN <<>>
    ELSE (IF ExistsAt(fileBlocks[i], t)
            THEN ReadAt(fileBlocks[i], t).mutations ELSE <<>>)
         \o ConcatBlocks(t, i + 1, latest)

\* The mutations of the chain as TxnId t reads it: blocks 0 .. latest.
ConcatAt(t) == ConcatBlocks(t, 0, ReadAt(latestLock, t))

\* The step is a call of append by t, and it returned Ok.
IsAppendStep(t) ==
    appends' = appends + 1 /\ chainRet'.txn = t /\ chainRet'.result = "ok"

\* C27: the mutations of blocks 0 .. latest, end to end, are the mutations
\* appended, in the order of the appends.  For every TxnId t and the chain as
\* t reads it: a successful append by t adds exactly its one mutation at the
\* end; a commit of t that seals the latest block, and the commits of its
\* join!, change nothing (nothing is lost, duplicated or reordered across a
\* seal); a refused append changes nothing; and any other step either leaves
\* what t reads alone or makes it what the committing TxnId read.
C27_ConcatenationIsAppendOrder ==
    [][\A t \in TxnIds :
         LET before == ConcatAt(t)
             after == ConcatAt(t)'
         IN  /\ IsAppendStep(t) =>
                   /\ Len(after) = Len(before) + 1
                   /\ SubSeq(after, 1, Len(before)) = before
                   /\ after[Len(after)].txn = t
             /\ (appends' = appends + 1 /\ chainRet'.result # "ok") =>
                   after = before
             /\ (txnState[t] \in {"active", "joining"} /\ txnState'[t] # txnState[t]) =>
                   after = before
             /\ (txnState[t] = "joining" /\ joinDone'[t] # joinDone[t]) =>
                   after = before
             /\ ~IsAppendStep(t) =>
                   \/ after = before
                   \/ \E u \in TxnIds \ {t} :
                         /\ txnState[u] = "joining"
                         /\ after = ConcatAt(u)]_vars

\* C27 witness: after two appends that filled block 0 and a commit that sealed
\* it, a third append went to block 1: a TxnId reads latest = 1, two mutations
\* in block 0 and one in block 1, three in all.
C27_Witness ==
    /\ appends = 3
    /\ \E t \in TxnIds :
          /\ ReadAt(latestLock, t) = 1
          /\ ExistsAt(fileBlocks[1], t)
          /\ Len(ReadAt(fileBlocks[0], t).mutations) = 2
          /\ Len(ReadAt(fileBlocks[1], t).mutations) = 1
          /\ Len(ConcatAt(t)) = 3

-----------------------------------------------------------------------------
(* Claims about tensor reductions *)

\* The two elements of the reduced tensor that lie along the axis at k.
Line(k) ==
    IF reduceRet.axis = 0
      THEN <<reduceRet.tensor[<<0, k>>], reduceRet.tensor[<<1, k>>]>>
      ELSE <<reduceRet.tensor[<<k, 0>>], reduceRet.tensor[<<k, 1>>]>>

\* All four elements of the reduced tensor.
Elements ==
    <<reduceRet.tensor[<<0, 0>>], reduceRet.tensor[<<0, 1>>],
      reduceRet.tensor[<<1, 0>>], reduceRet.tensor[<<1, 1>>]>>

\* C28: for the Dense and for the Sparse variant, Tensor::sum(axis) returns
\* the sums over the axis and Tensor::sum_all the sum of all elements, and
\* Tensor::product and Tensor::product_all return the products.
C28_SumAndProduct ==
    /\ reduceRet.op = "sum" =>
          \A k \in 0..1 : reduceRet.result[k] = Line(k)[1] + Line(k)[2]
    /\ reduceRet.op = "sum_all" =>
          reduceRet.result = Elements[1] + Elements[2] + Elements[3] + Elements[4]
    /\ reduceRet.op = "product" =>
          \A k \in 0..1 : reduceRet.result[k] = Line(k)[1] * Line(k)[2]
    /\ reduceRet.op = "product_all" =>
          reduceRet.result = Elements[1] * Elements[2] * Elements[3] * Elements[4]

-----------------------------------------------------------------------------
(* Claims about the planning loops *)

\* C31: the planning loops of TableIndex::slice, order_by, validate_bounds and
\* validate_order terminate: every outer iteration either leaves strictly
\* fewer bounds or columns than it found, or ends the call (with a view, Ok,
\* bad_request, or the panic of C30); so a loop makes at most one outer
\* iteration more than it has bounds or columns, and once the call has ended
\* nothing more happens.
C31_OuterIterationShortensOrReturns ==
    [][/\ (planLoop.status = "running" /\ planLoop'.passes = planLoop.passes + 1) =>
             \/ Len(planLoop'.rem) < Len(planLoop.rem)
             \/ planLoop'.status # "running"
       /\ planLoop'.status = "running" =>
             planLoop'.passes + Len(planLoop'.rem) <= Len(planLoop'.columns)
       /\ planLoop'.passes <= Len(planLoop'.columns) + 1
       /\ planLoop.status \notin {"none", "running"} => planLoop' = planLoop]_vars

\* C31 witness: validate_bounds on bounds of two columns made two outer
\* iterations, each accepted by an index, and returned Ok.
C31_Witness ==
    /\ planLoop.op = "validate_bounds"
    /\ Len(planLoop.columns) = 2
    /\ planLoop.passes = 2
    /\ planLoop.rem = <<>>
    /\ planLoop.status = "ok"

-----------------------------------------------------------------------------
(* Claims about the table transactions *)

\* C32 (as stated): TableIndex::rollback(txn) drops the pending changes of
\* txn in the primary and in every auxiliary index and commits none of them:
\* a step that is a rollback leaves the committed entries of every index as
\* they were, and no index keeps a pending change.
C32_RollbackCommitsNothing ==
    [][transactRet'.op = "rollback" =>
          \A n \in StoreNames :
              /\ stores'[n].committed = stores[n].committed
              /\ ~stores'[n].dirty]_vars

\* C33 (as stated): after TableIndex::update(txn, value) has returned, every
\* row the TxnId sees has the columns named in value set to the given
\* values, in the primary and in every auxiliary index.
C33_UpdateSetsColumns ==
    transactRet.op = "update" =>
        \A n \in StoreNames : \A e \in store_read(stores[n]) :
            \A i \in 1..Len(columns(store_schema(n))) :
                columns(store_schema(n))[i] \in DOMAIN transactRet.arg =>
                    e[i] = transactRet.arg[columns(store_schema(n))[i]]

-----------------------------------------------------------------------------
(* Claims about loading a chain *)

\* C34 (as stated): after any successful BlockChain::load, the block whose
\* ordinal is latest exists in the chain file, and the first append does not
\* fail with not_found; the directory may hold a chain file without blocks.
C34_LatestBlockExists ==
    chainLoad.state \in {"loaded", "committed"} =>
        /\ chainLoad.latest \in chainLoad.blocks \cup chainLoad.created
        /\ chainLoad.append # "not_found"

-----------------------------------------------------------------------------
(* Claims about all and the comparisons of the sparse tensor *)

\* C35 (as stated): SparseTensor::all returns true if and only if every
\* coordinate of the tensor is filled; it is false for a tensor in which no
\* coordinate, or only a leading part of the coordinates, is filled.
C35_AllIffEveryCoordinateFilled ==
    sparseCall.op = "all" =>
        (sparseCall.result <=> \A c \in Coords : sparseCall.tensor[c] # zero)

\* C36 (as stated): for a SparseTensor compared with a Tensor operand, dense
\* or sparse, lt returns the element-wise less-than and gt the element-wise
\* greater-than of the two.
C36_LtAndGtElementwise ==
    /\ sparseCall.op = "lt" =>
           \A c \in Coords :
               sparseCall.result[c] <=> sparseCall.tensor[c] < sparseCall.other[c]
    /\ sparseCall.op = "gt" =>
           \A c \in Coords :
               sparseCall.result[c] <=> sparseCall.tensor[c] > sparseCall.other[c]

-----------------------------------------------------------------------------
(* Claims about the FileCopier *)

\* C38 (as stated): a consumer that polled the FileCopier while it was open
\* and empty (Pending, its waker registered) is eventually woken after
\* close(), and its next poll returns the end of the stream.
C38_WokenAfterClose ==
    (copier.consumer = "pending" /\ ~copier.open /\ ~copier.panicked)
        ~> (copier.consumer = "ended")

-----------------------------------------------------------------------------
(* Claims about the file-backed chain *)

\* The mutations a read returned, whatever block they are in.
ReadMutations ==
    UNION {{fsChain.read.result[k][j] : j \in 1..Len(fsChain.read.result[k])} :
              k \in 1..Len(fsChain.read.result)}

\* C39 (as stated): the mutations stored with put(txn, m) are returned by
\* until(t) for every t >= txn; and Chain::from(stream, dest) stores the k-th
\* block of the stream at ordinal k, so that into_stream gives the blocks
\* back in order.
C39_PutUntilAndFromIntoStream ==
    /\ fsChain.read.op = "until" =>
           \A i \in 1..Len(fsChain.puts) :
               fsChain.puts[i][1] <= fsChain.read.txn =>
                   fsChain.puts[i][2] \in ReadMutations
    /\ (fsChain.made = "from" /\ fsChain.puts = <<>>) =>
           /\ \A k \in 1..Len(fsChain.source) :
                  fsChain.blocks[k - 1] = fsChain.source[k]
           /\ fsChain.read.op = "into_stream" =>
                  fsChain.read.result = fsChain.source

=============================================================================
